---------------------------- MODULE Spec2Model ----------------------------
(***************************************************************************)
(* Model of the PROTEUS unit property: the Measurement value type and the  *)
(* UnitProperty kind (proteus/model/properties/unit_property.py).          *)
(*                                                                         *)
(* Python strings are sequences of one-character strings, so that          *)
(* str.split, str.strip, float(str) and the "g" float format are computed  *)
(* character by character.  A Python float is a decimal [m, e] standing    *)
(* for m * 10^e, kept normalised (m has no trailing zero, zero is [0, 0]), *)
(* so two floats are equal exactly when their records are equal.  The      *)
(* values of the model are decimals of a few digits, which binary floats   *)
(* tell apart exactly as the decimals do.                                  *)
(***************************************************************************)
EXTENDS Integers, Sequences, FiniteSets

(***************************************************************************)
(* Bounds of the model.                                                    *)
(***************************************************************************)
MaxLists == 1       \* list objects the caller creates
MaxMeas  == 1       \* Measurement objects the caller creates
MaxProps == 2       \* UnitProperty objects constructed
MaxLen   == 2       \* length up to which the caller appends to a list

-----------------------------------------------------------------------------
(***************************************************************************)
(* Strings.                                                                *)
(***************************************************************************)
DigitChars == <<"0", "1", "2", "3", "4", "5", "6", "7", "8", "9">>

IsDigit(c) == \E i \in 1..10 : DigitChars[i] = c

DigitVal(c) == (CHOOSE i \in 1..10 : DigitChars[i] = c) - 1

IsSpace(c) == c = " "

RECURSIVE LStrip(_)
LStrip(s) == IF s # <<>> /\ IsSpace(Head(s)) THEN LStrip(Tail(s)) ELSE s

RECURSIVE RStrip(_)
RStrip(s) ==
    IF s # <<>> /\ IsSpace(s[Len(s)]) THEN RStrip(SubSeq(s, 1, Len(s) - 1)) ELSE s

\* str.strip()
Strip(s) == RStrip(LStrip(s))

\* str.split(): the maximal runs of non-whitespace characters, in order
RECURSIVE SplitFrom(_, _, _)
SplitFrom(s, cur, acc) ==
    IF s = <<>> THEN (IF cur = <<>> THEN acc ELSE Append(acc, cur))
    ELSE IF IsSpace(Head(s))
         THEN SplitFrom(Tail(s), <<>>, IF cur = <<>> THEN acc ELSE Append(acc, cur))
         ELSE SplitFrom(Tail(s), Append(cur, Head(s)), acc)

Split(s) == SplitFrom(s, <<>>, <<>>)

Range(s) == {s[i] : i \in 1..Len(s)}

-----------------------------------------------------------------------------
(***************************************************************************)
(* Floats as normalised decimals.                                          *)
(***************************************************************************)
Abs(n) == IF n < 0 THEN -n ELSE n

RECURSIVE Pow10(_)
Pow10(k) == IF k <= 0 THEN 1 ELSE 10 * Pow10(k - 1)

RECURSIVE Normalize(_, _)
Normalize(m, e) ==
    IF m = 0 THEN [m |-> 0, e |-> 0]
    ELSE IF Abs(m) % 10 = 0 THEN Normalize(m \div 10, e + 1)
    ELSE [m |-> m, e |-> e]

\* float(n) for an int n
IntToFloat(n) ==
    IF n < 0 THEN LET f == Normalize(-n, 0) IN [m |-> -(f.m), e |-> f.e]
    ELSE Normalize(n, 0)

RECURSIVE DigitsOf(_)
DigitsOf(n) ==
    IF n < 10 THEN <<DigitChars[n + 1]>>
    ELSE Append(DigitsOf(n \div 10), DigitChars[(n % 10) + 1])

RECURSIVE DigitsToInt(_)
DigitsToInt(s) ==
    IF s = <<>> THEN 0
    ELSE 10 * DigitsToInt(SubSeq(s, 1, Len(s) - 1)) + DigitVal(s[Len(s)])

AllDigits(s) == \A i \in 1..Len(s) : IsDigit(s[i])

\* position of the first c in s, 0 when there is none
FirstPos(s, c) ==
    IF \E i \in 1..Len(s) : s[i] = c
    THEN CHOOSE i \in 1..Len(s) : s[i] = c /\ \A j \in 1..(i - 1) : s[j] # c
    ELSE 0

IsSign(c) == c = "+" \/ c = "-"

NotANumber == [ok |-> FALSE, f |-> [m |-> 0, e |-> 0]]

\* the float nan: no decimal is normalised to a zero mantissa with an exponent
NaN == [m |-> 0, e |-> 1]

\* a == b for floats a and b: nan equals nothing, itself included
FloatEq(a, b) == a # NaN /\ b # NaN /\ a = b

\* the literal of nan, in any case
IsNaNLiteral(u) ==
    Len(u) = 3 /\ u[1] \in {"n", "N"} /\ u[2] \in {"a", "A"} /\ u[3] \in {"n", "N"}

\* the digits of a mantissa whose point is at position dot (0: no point) and
\* how many of them follow the point
Mantissa(mant, dot) ==
    IF dot = 0 THEN [digits |-> mant, k |-> 0]
    ELSE [digits |-> SubSeq(mant, 1, dot - 1) \o SubSeq(mant, dot + 1, Len(mant)),
          k |-> Len(mant) - dot]

\* the digits of an exponent and its sign
Exponent(expo) ==
    IF expo # <<>> /\ IsSign(expo[1])
    THEN [digits |-> Tail(expo), neg |-> expo[1] = "-"]
    ELSE [digits |-> expo, neg |-> FALSE]

NoExponent == [digits |-> <<"0">>, neg |-> FALSE]

Decimal(mt, ex) ==
    IF mt.digits # <<>> /\ AllDigits(mt.digits) /\ ex.digits # <<>> /\ AllDigits(ex.digits)
    THEN [ok |-> TRUE,
          f  |-> Normalize(DigitsToInt(mt.digits),
                           (IF ex.neg THEN -DigitsToInt(ex.digits)
                            ELSE DigitsToInt(ex.digits)) - mt.k)]
    ELSE NotANumber

MantissaOf(mant) == Mantissa(mant, FirstPos(mant, "."))

\* an unsigned literal whose exponent mark is at position ePos (0: none)
ParseUnsigned(u, ePos) ==
    IF IsNaNLiteral(u) THEN [ok |-> TRUE, f |-> NaN]
    ELSE IF ePos = 0 THEN Decimal(MantissaOf(u), NoExponent)
    ELSE Decimal(MantissaOf(SubSeq(u, 1, ePos - 1)), Exponent(SubSeq(u, ePos + 1, Len(u))))

WithSign(neg, p) == [ok |-> p.ok, f |-> [m |-> IF neg THEN -(p.f.m) ELSE p.f.m, e |-> p.f.e]]

ParseSigned(t) ==
    IF t # <<>> /\ IsSign(t[1])
    THEN WithSign(t[1] = "-", ParseUnsigned(Tail(t), FirstPos(Tail(t), "e")))
    ELSE ParseUnsigned(t, FirstPos(t, "e"))

\* float(s) for a str s: ok = FALSE stands for ValueError.  Accepted:
\* optional surrounding whitespace, optional sign, then nan or digits with
\* an optional point (at least one digit) and an optional exponent
\* e[sign]digits.  The literals of the infinities are not among the inputs.
ParseFloat(s) == ParseSigned(Strip(s))

RECURSIVE StripZeros(_)
StripZeros(d) ==
    IF Len(d) > 1 /\ d[Len(d)] = "0" THEN StripZeros(SubSeq(d, 1, Len(d) - 1)) ELSE d

RECURSIVE Zeros(_)
Zeros(k) == IF k <= 0 THEN <<>> ELSE <<"0">> \o Zeros(k - 1)

GPrecision == 6

\* The significant digits of |m| rounded to GPrecision digits (ties to even)
\* and the decimal exponent of the first of them: [d, x].
RoundSig(f) ==
    LET all  == DigitsOf(Abs(f.m))
        n    == Len(all)
        x    == n - 1 + f.e
    IN  IF n <= GPrecision THEN [d |-> all, x |-> x]
        ELSE LET keep == DigitsToInt(SubSeq(all, 1, GPrecision))
                 rest == DigitsToInt(SubSeq(all, GPrecision + 1, n))
                 half == 5 * Pow10(n - GPrecision - 1)
                 up   == rest > half \/ (rest = half /\ keep % 2 = 1)
                 k    == IF up THEN keep + 1 ELSE keep
             IN  IF k = Pow10(GPrecision)
                 THEN [d |-> <<"1">>, x |-> x + 1]
                 ELSE [d |-> StripZeros(DigitsOf(k)), x |-> x]

\* format(f, "g"): six significant digits, trailing zeros removed, exponent
\* notation when the decimal exponent is below -4 or at least the precision.
FormatG(f) ==
    IF f = NaN THEN <<"n", "a", "n">>
    ELSE IF f.m = 0 THEN <<"0">>
    ELSE LET r    == RoundSig(f)
             d    == r.d
             x    == r.x
             sign == IF f.m < 0 THEN <<"-">> ELSE <<>>
             body ==
                IF x < -4 \/ x >= GPrecision
                THEN <<d[1]>>
                     \o (IF Len(d) > 1 THEN <<".">> \o Tail(d) ELSE <<>>)
                     \o <<"e", IF x < 0 THEN "-" ELSE "+">>
                     \o (IF Abs(x) < 10 THEN <<"0">> ELSE <<>>) \o DigitsOf(Abs(x))
                ELSE IF x >= 0
                THEN IF Len(d) <= x + 1
                     THEN d \o Zeros(x + 1 - Len(d))
                     ELSE SubSeq(d, 1, x + 1) \o <<".">> \o SubSeq(d, x + 2, Len(d))
                ELSE <<"0", ".">> \o Zeros(-x - 1) \o d
         IN  sign \o body

\* the first 1 + k of the digits d, a point, and the rest: d is extended by
\* zeros so that one digit at least follows the point
PointAfter(d, k) ==
    IF Len(d) <= k + 1 THEN d \o Zeros(k + 1 - Len(d)) \o <<".", "0">>
    ELSE SubSeq(d, 1, k + 1) \o <<".">> \o SubSeq(d, k + 2, Len(d))

\* the exponent part of a float in exponent notation: two digits at least
ExponentPart(x) ==
    <<"e", IF x < 0 THEN "-" ELSE "+">>
    \o (IF Abs(x) < 10 THEN <<"0">> ELSE <<>>) \o DigitsOf(Abs(x))

ReprMinExp == -4

ReprMaxExp == 16

\* the unsigned str of the float with the significant digits d, the first
\* of them of decimal exponent x
ReprDigits(d, x) ==
    IF x < ReprMinExp \/ x >= ReprMaxExp
    THEN <<d[1]>> \o (IF Len(d) > 1 THEN <<".">> \o Tail(d) ELSE <<>>) \o ExponentPart(x)
    ELSE IF x >= 0 THEN PointAfter(d, x)
    ELSE <<"0", ".">> \o Zeros(-x - 1) \o d

\* str(f) for a float f: the shortest digits that give f back, a point and
\* a digit after it always in the fixed notation
FloatStr(f) ==
    IF f = NaN THEN <<"n", "a", "n">>
    ELSE IF f.m = 0 THEN <<"0", ".", "0">>
    ELSE (IF f.m < 0 THEN <<"-">> ELSE <<>>)
         \o ReprDigits(DigitsOf(Abs(f.m)), Len(DigitsOf(Abs(f.m))) - 1 + f.e)

-----------------------------------------------------------------------------
(***************************************************************************)
(* Python values handed to the constructors.  t is the Python type; i      *)
(* holds an int, or the identity of a list or Measurement object; f holds  *)
(* a float; s holds the characters of a str.                               *)
(***************************************************************************)
Zero == [m |-> 0, e |-> 0]

Py(t, i, f, s) == [t |-> t, i |-> i, f |-> f, s |-> s]

PyNone      == Py("NoneType", 0, Zero, <<>>)
PyInt(n)    == Py("int", n, Zero, <<>>)
PyFloat(f)  == Py("float", 0, f, <<>>)
PyStr(s)    == Py("str", 0, Zero, s)
PyTuple     == Py("tuple", 0, Zero, <<>>)
PyListOf(l) == Py("list", l, Zero, <<>>)
PyMeas(id)  == Py("Measurement", id, Zero, <<>>)

F(m, e) == [m |-> m, e |-> e]

-----------------------------------------------------------------------------
(***************************************************************************)
(* Measurement.__post_init__: the checks in the order of the code; err is  *)
(* the exception raised ("" when construction returns), value and unit     *)
(* are the fields of the object afterwards.                                *)
(***************************************************************************)
ErrValueNone   == "AssertionError: Measurement class value is None"
ErrValueNumber == "ValueError: Measurement class value is not a number"
ErrValueType   == "ValueError: Measurement class value is not a float or a string"
ErrUnitType    == "AssertionError: Measurement class unit is not a string"
ErrUnitEmpty   == "AssertionError: Measurement class unit is empty"
ErrUnitWords   == "AssertionError: Measurement class unit contains more than one word (spaces)"

Raise(e) == [err |-> e, value |-> Zero, unit |-> <<>>]

\* UnitFailure without the single-word assertion
UnitFailure_NoWordCheck(unit) ==
    IF unit.t # "str" THEN ErrUnitType
    ELSE IF Strip(unit.s) = <<>> THEN ErrUnitEmpty
    ELSE ""

\* lines 67-72: the three assertions on the unit
UnitFailure(unit) ==
    IF unit.t # "str" THEN ErrUnitType
    ELSE IF Strip(unit.s) = <<>> THEN ErrUnitEmpty
    ELSE IF Split(Strip(unit.s)) # <<unit.s>> THEN ErrUnitWords
    ELSE ""

\* MeasurementPostInit with the unit validated before the value
MeasurementPostInit_UnitFirst(value, unit) ==
    IF UnitFailure(unit) # "" THEN Raise(UnitFailure(unit))
    ELSE IF value.t = "NoneType" THEN Raise(ErrValueNone)
    ELSE IF value.t = "int" THEN [err |-> "", value |-> IntToFloat(value.i), unit |-> unit.s]
    ELSE IF value.t = "float" THEN [err |-> "", value |-> value.f, unit |-> unit.s]
    ELSE IF value.t = "str" /\ ParseFloat(value.s).ok
         THEN [err |-> "", value |-> ParseFloat(value.s).f, unit |-> unit.s]
    ELSE IF value.t = "str" THEN Raise(ErrValueNumber)
    ELSE Raise(ErrValueType)

\* lines 50-65: the value is present and is coerced to a float
ValueCoercion(value) ==
    IF value.t = "NoneType" THEN [err |-> ErrValueNone, f |-> Zero]
    ELSE IF value.t = "int" THEN [err |-> "", f |-> IntToFloat(value.i)]
    ELSE IF value.t = "float" THEN [err |-> "", f |-> value.f]
    ELSE IF value.t = "str"
         THEN LET p == ParseFloat(value.s)
              IN  IF p.ok THEN [err |-> "", f |-> p.f]
                  ELSE [err |-> ErrValueNumber, f |-> Zero]
    ELSE [err |-> ErrValueType, f |-> Zero]

MeasurementPostInit(value, unit) ==
    LET c == ValueCoercion(value)
    IN  IF c.err # "" THEN Raise(c.err)
        ELSE IF UnitFailure(unit) # "" THEN Raise(UnitFailure(unit))
        ELSE [err |-> "", value |-> c.f, unit |-> unit.s]

\* Measurement.to_string on an object with fields value, unit
MeasurementToString(m) == FormatG(m.value) \o <<" ">> \o m.unit

-----------------------------------------------------------------------------
(***************************************************************************)
(* The attributes all properties have in common: name, category, tooltip,  *)
(* required and inmutable.  A constructor is given them as Python values   *)
(* (args); Property.__post_init__ leaves them as strings and booleans.     *)
(***************************************************************************)
DEFAULT_NAME == <<"N">>

DEFAULT_CATEGORY == <<"G">>

PyBool(b) == Py("bool", IF b THEN 1 ELSE 0, Zero, <<>>)

Args(name, category, tooltip, required, inmutable) ==
    [name |-> name, category |-> category, tooltip |-> tooltip,
     required |-> required, inmutable |-> inmutable]

\* the attributes of a constructor call that names none of them
NoArgs == Args(PyNone, PyNone, PyNone, PyNone, PyNone)

\* a name or category: the default when it is no string or a blank one
NameOrDefault(v, dflt) == IF v.t # "str" \/ Strip(v.s) = <<>> THEN dflt ELSE v.s

\* required or inmutable: true for the boolean True alone
BoolOrFalse(v) == v.t = "bool" /\ v.i = 1

\* PropertyPostInit that takes any value that is true in a condition (a
\* string that is not empty, too) for True
PropertyPostInit_Truthy(args) ==
    [name      |-> NameOrDefault(args.name, DEFAULT_NAME),
     category  |-> NameOrDefault(args.category, DEFAULT_CATEGORY),
     tooltip   |-> IF args.tooltip.t = "str" THEN args.tooltip.s ELSE <<>>,
     required  |-> BoolOrFalse(args.required)
                   \/ (args.required.t = "str" /\ args.required.s # <<>>),
     inmutable |-> BoolOrFalse(args.inmutable)
                   \/ (args.inmutable.t = "str" /\ args.inmutable.s # <<>>)]

\* Property.__post_init__: the defaults take the place of what is missing
PropertyPostInit(args) ==
    [name      |-> NameOrDefault(args.name, DEFAULT_NAME),
     category  |-> NameOrDefault(args.category, DEFAULT_CATEGORY),
     tooltip   |-> IF args.tooltip.t = "str" THEN args.tooltip.s ELSE <<>>,
     required  |-> BoolOrFalse(args.required),
     inmutable |-> BoolOrFalse(args.inmutable)]

\* the attributes a constructed property has, as constructor arguments
ArgsOf(p) ==
    Args(PyStr(p.name), PyStr(p.category), PyStr(p.tooltip),
         PyBool(p.required), PyBool(p.inmutable))

\* the common attributes of two properties are equal
SameCommon(p, q) ==
    /\ p.name = q.name
    /\ p.category = q.category
    /\ p.tooltip = q.tooltip
    /\ p.required = q.required
    /\ p.inmutable = q.inmutable

-----------------------------------------------------------------------------
(***************************************************************************)
(* The objects.  Python hands lists and Measurements around by reference,  *)
(* so both live in a heap and are named by their address in it.  The       *)
(* caller's objects take the addresses 1..MaxLists and 1..MaxMeas in the   *)
(* order of their creation; the list that str.split builds and the default *)
(* Measurement that __post_init__ builds for the p-th property take the    *)
(* addresses MaxLists + p and MaxMeas + p.                                 *)
(*   lists[l]  = [items, live]: a list object                              *)
(*   meas[m]   = [value, unit, live]: a Measurement object (a mutable      *)
(*               dataclass)                                                *)
(*   props[p]  = [units, value, name, category, tooltip, required,         *)
(*               inmutable]: a UnitProperty (a frozen dataclass): the      *)
(*               addresses of the list and of the Measurement its fields   *)
(*               units and value name, and its common attributes           *)
(*   trace     = the TraceProperty constructed last: its fields, the       *)
(*               arguments of its constructor and the element it is from   *)
(* History of the calls, for the properties:                               *)
(*   atReturn[p] = what p.units, p.value.value, p.value.unit were when     *)
(*               p's construction returned                                 *)
(*   call      = the last call of a constructor or method: op, its         *)
(*               arguments, the exception raised (err, "" when it          *)
(*               returned) and the address of the object returned (ret)    *)
(*   before    = the fields of the Measurement argument before the call    *)
(*   text      = what the last to_string returned                          *)
(*   eqv       = what the last __eq__ or compare returned                  *)
(*   given[p]  = how p was made: args, the common attributes its           *)
(*               constructor was called with; for a clone, of, the         *)
(*               property cloned, new_value, the argument of clone, and    *)
(*               was and source, the fields of new_value (a Measurement)   *)
(*               and of the value of the property cloned before the call   *)
(*   xml       = the element the last PropertyFactory.create was given     *)
(*               (in) and the element the last generate_xml returned (out) *)
(***************************************************************************)
VARIABLES lists, meas, props, atReturn, call, before, text, eqv, given, xml, trace,
          project, fs, prune, exporter, form

vars == <<lists, meas, props, atReturn, call, before, text, eqv, given, xml, trace,
          project, fs, prune, exporter, form>>

\* the state of the property model, and the state of what uses it
modelVars == <<lists, meas, props, atReturn, call, before, text, eqv, given, xml, trace>>

appVars == <<project, fs, prune, exporter, form>>

ListAddrs == 1..(MaxLists + MaxProps)

MeasAddrs == 1..(MaxMeas + MaxProps)

NoList == [items |-> <<>>, live |-> FALSE]

NoMeas == [value |-> Zero, unit |-> <<>>, live |-> FALSE]

NoFields == [value |-> Zero, unit |-> <<>>]

Fields(m) == [value |-> m.value, unit |-> m.unit]

NoCall == [op |-> "none", a |-> PyNone, b |-> PyNone, err |-> "", ret |-> 0]

\* an XML element: its tag, its attributes in their order, each a pair of a
\* name and a value, its text and its children, elements themselves
Element(tag, attrib, chars, children) ==
    [tag |-> tag, attrib |-> attrib, text |-> chars, children |-> children]

NoElement == Element("", <<>>, <<>>, <<>>)

\* in: the element create was given, made: the property it returned (0:
\* none); out: the element generate_xml returned, of: the property it is of
NoXml == [in |-> NoElement, made |-> 0, out |-> NoElement, of |-> 0]

\* a Python value given for a field of a trace property: its type, and the
\* integer, the string or the items of the list it is
TV(t, i, s, l) == [t |-> t, i |-> i, s |-> s, l |-> l]

TNone == TV("NoneType", 0, <<>>, <<>>)

TInt(n) == TV("int", n, <<>>, <<>>)

TStr(s) == TV("str", 0, s, <<>>)

TList(l) == TV("list", 0, <<>>, l)

\* TraceProperty(..., targets, ..., acceptedTargets, excludedTargets,
\* traceType, maxTargetsNumber): the five fields of the trace kind
TraceArgs(targets, acceptedTargets, excludedTargets, traceType, maxTargetsNumber) ==
    [targets |-> targets, acceptedTargets |-> acceptedTargets,
     excludedTargets |-> excludedTargets, traceType |-> traceType,
     maxTargetsNumber |-> maxTargetsNumber]

\* no TraceProperty was constructed yet (made); from is the element create
\* made it of, args what the constructor was called with, the rest the
\* fields of the property
NoTrace ==
    [made |-> FALSE, from |-> NoElement,
     args |-> TraceArgs(TNone, TNone, TNone, TNone, TNone),
     value |-> <<>>, acceptedTargets |-> <<>>, excludedTargets |-> <<>>,
     traceType |-> <<>>, maxTargetsNumber |-> 0]

\* the project: its objects, each with its properties (a dict from the name
\* to the property: entries of a key and a property, in the order of their
\* insertion) and its state; stores, the calls of store_verification so
\* far, which is the time of the clock as well; seen, the state the object
\* of the last store_verification had when its RequiredSaveActionEvent was
\* notified ("": none was); first[id], the number of properties of the
\* object after the first store_verification for it (0: none yet); prev,
\* the properties of the object before the last store_verification for it
\* the disk: fs[p] is the kind of what is at the path p, a file or a
\* directory ("file", "dir"), for the paths where something is; a path is
\* the sequence of its names.  prune is the call of
\* remove_empty_directories: where it is (phase: idle, running, done), its
\* argument (root), the order iterdir lists entries in, the disk when it
\* was called (fs0), and its stack, a frame for each call that has not
\* returned: the path, and the entries its loop has still to visit
NoFiles == [p \in {} |-> "dir"]

\* the disk with the entries, pairs of a path and a kind
Disk(entries) ==
    [p \in {e[1] : e \in entries} |-> (CHOOSE e \in entries : e[1] = p)[2]]

\* the current directory with the directory d; the project p with the
\* assets a and b and an empty directory; the template t with a style
\* file, a style sheet and a directory r with the same two
Template ==
    {<<<<"t">>, "dir">>, <<<<"t", "s.sty">>, "file">>, <<<<"t", "x.xsl">>, "file">>,
     <<<<"t", "r">>, "dir">>, <<<<"t", "r", "s.sty">>, "file">>,
     <<<<"t", "r", "x.xsl">>, "file">>}

Assets ==
    {<<<<"p", "assets">>, "dir">>, <<<<"p", "assets", "a">>, "file">>,
     <<<<"p", "assets", "b">>, "file">>, <<<<"p", "assets", "e">>, "dir">>}

Plain == {<<<<>>, "dir">>, <<<<"d">>, "dir">>, <<<<"p">>, "dir">>}

\* the disk with the project and the template
HomeDisk == Disk(Plain \cup Assets \cup Template)

\* the disk the program starts on: a current directory without entries
EmptyDisk == Disk({<<<<>>, "dir">>})

NoPrune == [phase |-> "idle", root |-> <<>>, order |-> "up", fs0 |-> NoFiles,
            stack |-> <<>>]

\* the ExportLaTeX strategy with its form: path, the text of the path
\* input (empty, or the path p it names); folder, the text of the folder
\* name input, and whether validators.is_valid_folder_name accepts it;
\* pdf, whether PDF generation is checked; label, the error label; and of
\* the call of _validate_directory or export, when the last step was one:
\* signals, the signals it emitted, in their order; raised, the exception
\* that left it ("": none); ran, the runs of pdflatex; fs0, the disk when
\* export was called; failed, the exception the LaTeX part of export
\* caught ("": none)
PathText(empty, p) == [empty |-> empty, p |-> p]

FolderName(chars, valid) == [text |-> chars, valid |-> valid]

\* a signal emitted: readyToExportSignal(ok), exportProgressSignal(n),
\* exportFinishedSignal(folder, ok)
Signal(sig, n, ok, folder) == [sig |-> sig, n |-> n, ok |-> ok, folder |-> folder]

\* lines 249-279 and 81-88: the form as exportFormWidget builds it: the
\* path input empty, the folder name the default one, the label hidden
NewExporter ==
    [path    |-> PathText(TRUE, <<>>),
     folder  |-> FolderName("o", TRUE),
     pdf     |-> FALSE,
     label   |-> [hidden |-> TRUE, text |-> ""],
     signals |-> <<>>,
     raised  |-> "",
     ran     |-> 0,
     fs0     |-> NoFiles,
     failed  |-> ""]

\* the exporter when the last step was no call of it
NoCallOf(ex) ==
    [ex EXCEPT !.signals = <<>>, !.raised = "", !.ran = 0, !.fs0 = NoFiles,
               !.failed = ""]

\* the UnitPropertyInput of a property with its MeasurementEdit: units and
\* texts, the data and the text of the items of the unit combo box; index,
\* the position of its current item (0: none); value, the text of the
\* value edit; required, whether the property is required; shown, the
\* value of the property; fresh, whether create_input was the last to
\* change the widget; and out, what the last step returned, when it was a
\* call of get_value or validate: the exception raised by get_value (err)
\* or the Measurement it returned (value, unit), and the key validate
\* returned ("None" for None)
NoOut == [op |-> "", err |-> "", value |-> [m |-> 0, e |-> 0], unit |-> <<>>, key |-> ""]

NoForm ==
    [units |-> <<>>, texts |-> <<>>, index |-> 0, value |-> <<>>, required |-> FALSE,
     shown |-> [value |-> [m |-> 0, e |-> 0], unit |-> <<>>], fresh |-> FALSE,
     out |-> NoOut]

ObjectIds == {1, 2}

ProteusObject(properties, state) == [properties |-> properties, state |-> state]

\* a property of a kind with a simple value, made by the made-th call of
\* store_verification (0: made otherwise)
StoredProperty(kind, common, value, made) ==
    [kind |-> kind, name |-> common.name, category |-> common.category,
     tooltip |-> common.tooltip, required |-> common.required,
     inmutable |-> common.inmutable, value |-> value, made |-> made]

Entry(key, prop) == [key |-> key, prop |-> prop]

NameKey == <<"n", "a", "m", "e">>

OutputKey == <<"a", "i", "_", "v", "_", "o">>

\* a string property of the name key, the other attributes the defaults
StringEntry(key, value) ==
    Entry(key, StoredProperty("StringProperty",
                              PropertyPostInit(Args(PyStr(key), PyNone, PyNone, PyNone,
                                                    PyNone)),
                              value, 0))

\* the objects of a project that was loaded: the first has a name, the
\* second a property of the name of the verification output and a name
LoadedObjects ==
    [id \in ObjectIds |->
        IF id = 1 THEN ProteusObject(<<StringEntry(NameKey, <<>>)>>, "CLEAN")
        ELSE ProteusObject(<<StringEntry(OutputKey, <<"x">>), StringEntry(NameKey, <<>>)>>,
                           "CLEAN")]

\* before a project is opened there are no objects
NoProject ==
    [objects |-> <<>>,
     prev    |-> <<>>,
     stores  |-> 0,
     seen    |-> "",
     first   |-> [id \in ObjectIds |-> 0]]

Init ==
    /\ lists = [l \in ListAddrs |-> NoList]
    /\ meas = [m \in MeasAddrs |-> NoMeas]
    /\ props = <<>>
    /\ atReturn = <<>>
    /\ call = NoCall
    /\ before = NoFields
    /\ text = <<>>
    /\ eqv = FALSE
    /\ given = <<>>
    /\ xml = NoXml
    /\ trace = NoTrace
    /\ project = NoProject
    /\ fs = EmptyDisk
    /\ prune = NoPrune
    /\ exporter = NewExporter
    /\ form = NoForm

CallerLists == {l \in 1..MaxLists : lists[l].live}

CallerMeas == {m \in 1..MaxMeas : meas[m].live}

LiveMeas == {m \in MeasAddrs : meas[m].live}

\* p.units, p.value.value and p.value.unit as the heap (ls, ms) has them
View(p, ls, ms) ==
    [units |-> ls[p.units].items, value |-> ms[p.value].value, unit |-> ms[p.value].unit]

-----------------------------------------------------------------------------
(***************************************************************************)
(* UnitProperty.__post_init__ of the n-th property on the arguments units  *)
(* and value, in the heap (ls, ms): the exception raised, or the heap      *)
(* afterwards and the two fields of the new property.                      *)
(***************************************************************************)
ErrUnitsType  == "ValueError: UnitProperty class units is not a list"
ErrUnitsEmpty == "AssertionError: UnitProperty class units list is empty"

Failed(e, ls, ms) == [err |-> e, lists |-> ls, meas |-> ms, units |-> 0, value |-> 0]

\* RepairUnit that leaves a unit that is none of the units as it is
RepairUnit_Skipped(ls, ms, unitsId, valueId) ==
    [err |-> "", lists |-> ls, meas |-> ms, units |-> unitsId, value |-> valueId]

\* RepairUnit that assigns the last of the units
RepairUnit_LastUnit(ls, ms, unitsId, valueId) ==
    [err   |-> "",
     lists |-> ls,
     meas  |-> IF ms[valueId].unit \notin Range(ls[unitsId].items)
               THEN [ms EXCEPT ![valueId].unit =
                        ls[unitsId].items[Len(ls[unitsId].items)]]
               ELSE ms,
     units |-> unitsId,
     value |-> valueId]

\* lines 146-150: the unit of the Measurement the property holds is
\* rewritten when it is not one of the units
RepairUnit(ls, ms, unitsId, valueId) ==
    [err   |-> "",
     lists |-> ls,
     meas  |-> IF ms[valueId].unit \notin Range(ls[unitsId].items)
               THEN [ms EXCEPT ![valueId].unit = ls[unitsId].items[1]]
               ELSE ms,
     units |-> unitsId,
     value |-> valueId]

\* RepairValue that replaces only a value that is None: the unit of any
\* other value that is no Measurement cannot be read
RepairValue_OnlyNone(n, ls, ms, unitsId, value, dflt) ==
    IF value.t = "NoneType"
    THEN [err   |-> "",
          lists |-> ls,
          meas  |-> [ms EXCEPT ![MaxMeas + n] =
                        [value |-> dflt.value, unit |-> dflt.unit, live |-> TRUE]],
          units |-> unitsId,
          value |-> MaxMeas + n]
    ELSE IF value.t # "Measurement"
    THEN Failed("AttributeError: object has no attribute 'unit'", ls, ms)
    ELSE [err |-> "", lists |-> ls, meas |-> ms, units |-> unitsId, value |-> value.i]

\* lines 139-143: the value is replaced by the default when it is no Measurement
RepairValue(n, ls, ms, unitsId, value, dflt) ==
    IF value.t # "Measurement"
    THEN RepairUnit(ls,
                    [ms EXCEPT ![MaxMeas + n] =
                        [value |-> dflt.value, unit |-> dflt.unit, live |-> TRUE]],
                    unitsId, MaxMeas + n)
    ELSE RepairUnit(ls, ms, unitsId, value.i)

\* CheckUnits without the assertion: the first unit of an empty list is read
CheckUnits_NoEmptyCheck(n, ls0, ms, ls, unitsId, value) ==
    IF Len(ls[unitsId].items) = 0
    THEN Failed("IndexError: list index out of range", ls0, ms)
    ELSE IF MeasurementPostInit(PyInt(0), PyStr(ls[unitsId].items[1])).err # ""
    THEN Failed(MeasurementPostInit(PyInt(0), PyStr(ls[unitsId].items[1])).err, ls0, ms)
    ELSE RepairValue(n, ls, ms, unitsId, value,
                     MeasurementPostInit(PyInt(0), PyStr(ls[unitsId].items[1])))

\* lines 134-137: units is not empty, and the default value is built
CheckUnits(n, ls0, ms, ls, unitsId, value) ==
    IF Len(ls[unitsId].items) = 0 THEN Failed(ErrUnitsEmpty, ls0, ms)
    ELSE IF MeasurementPostInit(PyInt(0), PyStr(ls[unitsId].items[1])).err # ""
    THEN Failed(MeasurementPostInit(PyInt(0), PyStr(ls[unitsId].items[1])).err, ls0, ms)
    ELSE RepairValue(n, ls, ms, unitsId, value,
                     MeasurementPostInit(PyInt(0), PyStr(ls[unitsId].items[1])))

\* the characters of a string, each a string: list(s)
Chars(s) == [i \in 1..Len(s) |-> <<s[i]>>]

\* UnitPropertyPostInit that turns a str units into the list of its characters
UnitPropertyPostInit_CharList(n, ls, ms, units, value) ==
    IF units.t = "str"
    THEN CheckUnits(n, ls, ms,
                    [ls EXCEPT ![MaxLists + n] = [items |-> Chars(units.s), live |-> TRUE]],
                    MaxLists + n, value)
    ELSE IF units.t # "list" THEN Failed(ErrUnitsType, ls, ms)
    ELSE CheckUnits(n, ls, ms, ls, units.i, value)

\* lines 126-132: a str units is split, any other units but a list is refused
UnitPropertyPostInit(n, ls, ms, units, value) ==
    IF units.t = "str"
    THEN CheckUnits(n, ls, ms,
                    [ls EXCEPT ![MaxLists + n] = [items |-> Split(units.s), live |-> TRUE]],
                    MaxLists + n, value)
    ELSE IF units.t # "list" THEN Failed(ErrUnitsType, ls, ms)
    ELSE CheckUnits(n, ls, ms, ls, units.i, value)

-----------------------------------------------------------------------------
(***************************************************************************)
(* The inputs the calls are made with.                                     *)
(***************************************************************************)
Y  == <<"y">>
D  == <<"d">>
S  == <<"s">>
YD == <<"y", " ", "d">>

\* lists the caller builds; the last holds a string that is no single token
ListInputs == {<<>>, <<D, Y>>, <<YD, D>>}

UnitTokens == {Y, D}

\* values and units of the Measurements the caller constructs beside properties
HeapValueInputs == {PyFloat(F(1, 0))}

HeapUnitInputs == {PyStr(Y), PyStr(S)}

\* units arguments that are no list object
UnitsInputs ==
    {PyStr(<<>>), PyStr(<<" ">>), PyStr(<<"d">>), PyStr(<<"y", " ", " ", "d">>),
     PyNone, PyTuple, PyInt(3)}

\* value arguments that are no Measurement
NonMeasurementInputs == {PyNone, PyStr(<<"1", ".", "0">>), PyFloat(F(1, 0))}

-----------------------------------------------------------------------------
(***************************************************************************)
(* What the caller does with its own objects.                              *)
(***************************************************************************)
\* the caller builds a list
NewList(items) ==
    /\ Cardinality(CallerLists) < MaxLists
    /\ lists' = [lists EXCEPT ![Cardinality(CallerLists) + 1] =
                    [items |-> items, live |-> TRUE]]
    /\ call' = NoCall
    /\ before' = NoFields
    /\ UNCHANGED <<meas, props, atReturn, text, eqv, given, xml, trace, appVars>>

\* l.append(u)
ListAppend(l, u) ==
    /\ l \in CallerLists
    /\ Len(lists[l].items) < MaxLen
    /\ lists' = [lists EXCEPT ![l].items = Append(@, u)]
    /\ call' = NoCall
    /\ before' = NoFields
    /\ UNCHANGED <<meas, props, atReturn, text, eqv, given, xml, trace, appVars>>

\* l[i] = u
ListRewrite(l, i, u) ==
    /\ l \in CallerLists
    /\ i \in 1..Len(lists[l].items)
    /\ lists[l].items[i] # u
    /\ lists' = [lists EXCEPT ![l].items[i] = u]
    /\ call' = NoCall
    /\ before' = NoFields
    /\ UNCHANGED <<meas, props, atReturn, text, eqv, given, xml, trace, appVars>>

\* Measurement(value, unit)
NewMeasurement(value, unit) ==
    /\ Cardinality(CallerMeas) < MaxMeas
    /\ LET r == MeasurementPostInit(value, unit)
           m == Cardinality(CallerMeas) + 1
       IN  /\ meas' = IF r.err = ""
                      THEN [meas EXCEPT ![m] =
                               [value |-> r.value, unit |-> r.unit, live |-> TRUE]]
                      ELSE meas
           /\ call' = [op |-> "Measurement", a |-> value, b |-> unit, err |-> r.err,
                       ret |-> IF r.err = "" THEN m ELSE 0]
    /\ before' = NoFields
    /\ UNCHANGED <<lists, props, atReturn, text, eqv, given, xml, trace, appVars>>

\* m.unit = u
SetUnit(m, u) ==
    /\ m \in CallerMeas
    /\ meas[m].unit # u
    /\ meas' = [meas EXCEPT ![m].unit = u]
    /\ call' = NoCall
    /\ before' = NoFields
    /\ UNCHANGED <<lists, props, atReturn, text, eqv, given, xml, trace, appVars>>

\* m.value = f
SetValue(m, f) ==
    /\ m \in CallerMeas
    /\ meas[m].value # f
    /\ meas' = [meas EXCEPT ![m].value = f]
    /\ call' = NoCall
    /\ before' = NoFields
    /\ UNCHANGED <<lists, props, atReturn, text, eqv, given, xml, trace, appVars>>

-----------------------------------------------------------------------------
(***************************************************************************)
(* Construction of unit properties.                                        *)
(***************************************************************************)
\* the heap and the history after __post_init__ ended as r
NoOrigin == [of |-> 0, new_value |-> PyNone, was |-> NoFields, source |-> NoFields]

Constructed(op, origin, args, units, value, r) ==
    /\ lists' = r.lists
    /\ meas' = r.meas
    /\ props' = IF r.err = ""
                THEN Append(props, [units     |-> r.units,
                                    value     |-> r.value,
                                    name      |-> PropertyPostInit(args).name,
                                    category  |-> PropertyPostInit(args).category,
                                    tooltip   |-> PropertyPostInit(args).tooltip,
                                    required  |-> PropertyPostInit(args).required,
                                    inmutable |-> PropertyPostInit(args).inmutable])
                ELSE props
    /\ atReturn' = IF r.err = ""
                   THEN Append(atReturn, View(r, r.lists, r.meas))
                   ELSE atReturn
    /\ call' = [op |-> op, a |-> units, b |-> value, err |-> r.err,
                ret |-> IF r.err = "" THEN Len(props) + 1 ELSE 0]
    /\ before' = IF value.t = "Measurement" THEN Fields(meas[value.i]) ELSE NoFields
    /\ given' = IF r.err = ""
                THEN Append(given, [args      |-> args,
                                    of        |-> origin.of,
                                    new_value |-> origin.new_value,
                                    was       |-> origin.was,
                                    source    |-> origin.source])
                ELSE given
    /\ UNCHANGED <<text, eqv, trace, appVars>>

\* UnitProperty(name, category, value, tooltip, required, inmutable, units)
ConstructWith(args, units, value) ==
    /\ Len(props) < MaxProps
    /\ Constructed("UnitProperty", NoOrigin, args, units, value,
                   UnitPropertyPostInit(Len(props) + 1, lists, meas, units, value))
    /\ UNCHANGED xml

\* UnitProperty(units=units, value=value)
Construct(units, value) == ConstructWith(NoArgs, units, value)

\* the value a clone is constructed with
CloneValue(p, new_value) ==
    IF new_value.t = "NoneType" THEN PyMeas(props[p].value) ELSE new_value

\* what is kept of a call of clone
CloneOrigin(p, new_value) ==
    [of        |-> p,
     new_value |-> new_value,
     was       |-> IF new_value.t = "Measurement" THEN Fields(meas[new_value.i])
                   ELSE NoFields,
     source    |-> Fields(meas[props[p].value])]

\* p.clone(new_value): a new instance of the fields of p, the value replaced
\* by new_value unless that is None, constructed as any instance is
Clone(p, new_value) ==
    /\ Len(props) < MaxProps
    /\ p \in 1..Len(props)
    /\ Constructed("clone", CloneOrigin(p, new_value), ArgsOf(props[p]),
                   PyListOf(props[p].units),
                   CloneValue(p, new_value),
                   UnitPropertyPostInit(Len(props) + 1, lists, meas,
                                        PyListOf(props[p].units),
                                        CloneValue(p, new_value)))
    /\ UNCHANGED xml

-----------------------------------------------------------------------------
(***************************************************************************)
(* XML elements of unit properties: generate_xml and PropertyFactory.      *)
(***************************************************************************)
UNIT_PROPERTY_TAG == "unitProperty"

VALUE_TAG == "value"

UNIT_TAG == "unit"

NAME_ATTRIBUTE == "name"

CATEGORY_ATTRIBUTE == "category"

TOOLTIP_ATTRIBUTE == "tooltip"

REQUIRED_ATTRIBUTE == "required"

INMUTABLE_ATTRIBUTE == "inmutable"

UNITS_ATTRIBUTE == "units"

TrueText == <<"t", "r", "u", "e">>

PyProp(p) == Py("UnitProperty", p, Zero, <<>>)

HasAttr(e, key) == \E i \in 1..Len(e.attrib) : e.attrib[i][1] = key

\* element.attrib.get(key): None when the element has no such attribute
GetAttr(e, key) ==
    IF HasAttr(e, key)
    THEN PyStr(e.attrib[CHOOSE i \in 1..Len(e.attrib) : e.attrib[i][1] = key][2])
    ELSE PyNone

\* element.set(key, v): the attribute is rewritten in place, or added last
SetAttr(e, key, v) ==
    IF HasAttr(e, key)
    THEN [e EXCEPT !.attrib = [i \in 1..Len(e.attrib) |->
                                  IF e.attrib[i][1] = key THEN <<key, v>>
                                  ELSE e.attrib[i]]]
    ELSE [e EXCEPT !.attrib = Append(@, <<key, v>>)]

\* ET.SubElement(e, tag) with the text chars
SubElement(e, tag, chars) ==
    [e EXCEPT !.children = Append(@, Element(tag, <<>>, chars, <<>>))]

HasChild(e, tag) == \E i \in 1..Len(e.children) : e.children[i].tag = tag

\* the text of the first child of that tag, None without such a child
ChildText(e, tag) ==
    IF HasChild(e, tag)
    THEN PyStr(e.children[CHOOSE i \in 1..Len(e.children) :
                              /\ e.children[i].tag = tag
                              /\ \A j \in 1..(i - 1) : e.children[j].tag # tag].text)
    ELSE PyNone

\* " ".join(l)
RECURSIVE Join(_)
Join(l) ==
    IF l = <<>> THEN <<>>
    ELSE IF Len(l) = 1 THEN l[1]
    ELSE l[1] \o <<" ">> \o Join(Tail(l))

\* the attributes Property.generate_xml gives the element: name and
\* category always, tooltip when not empty, required and inmutable when true
CommonAttrib(p) ==
    <<<<NAME_ATTRIBUTE, p.name>>, <<CATEGORY_ATTRIBUTE, p.category>>>>
    \o (IF p.tooltip # <<>> THEN <<<<TOOLTIP_ATTRIBUTE, p.tooltip>>>> ELSE <<>>)
    \o (IF p.required THEN <<<<REQUIRED_ATTRIBUTE, TrueText>>>> ELSE <<>>)
    \o (IF p.inmutable THEN <<<<INMUTABLE_ATTRIBUTE, TrueText>>>> ELSE <<>>)

\* generate_xml_value that writes the value as to_string does
GenerateXmlValue_FormatG(ms, p, property_element) ==
    SubElement(SubElement(property_element, VALUE_TAG, FormatG(ms[p.value].value)),
               UNIT_TAG, ms[p.value].unit)

\* lines 178-196: UnitProperty.generate_xml_value adds the two children,
\* the value as str(float), and returns None: the element gets no text
GenerateXmlValue(ms, p, property_element) ==
    SubElement(SubElement(property_element, VALUE_TAG, FloatStr(ms[p.value].value)),
               UNIT_TAG, ms[p.value].unit)

\* Property.generate_xml: the element of the tag with the common
\* attributes, the value written by generate_xml_value
PropertyGenerateXml(ms, p) ==
    GenerateXmlValue(ms, p, Element(UNIT_PROPERTY_TAG, CommonAttrib(p), <<>>, <<>>))

\* lines 158-170: UnitProperty.generate_xml sets the units attribute
GenerateXml(ls, ms, p) ==
    SetAttr(PropertyGenerateXml(ms, p), UNITS_ATTRIBUTE, Join(ls[p.units].items))

\* the common attributes PropertyFactory.create reads from an element:
\* required and inmutable are True for the text true
ElementArgs(x) ==
    Args(GetAttr(x, NAME_ATTRIBUTE), GetAttr(x, CATEGORY_ATTRIBUTE),
         GetAttr(x, TOOLTIP_ATTRIBUTE),
         PyBool(GetAttr(x, REQUIRED_ATTRIBUTE) = PyStr(TrueText)),
         PyBool(GetAttr(x, INMUTABLE_ATTRIBUTE) = PyStr(TrueText)))

\* the units list PropertyFactory.create builds: the tokens of the units
\* attribute, the empty list without the attribute
ElementUnits(x) ==
    IF HasAttr(x, UNITS_ATTRIBUTE) THEN Split(GetAttr(x, UNITS_ATTRIBUTE).s) ELSE <<>>

\* the Measurement PropertyFactory.create builds from the two children
ElementMeasurement(x) ==
    MeasurementPostInit(ChildText(x, VALUE_TAG), ChildText(x, UNIT_TAG))

\* the tags PropertyFactory knows a kind of property for
STRING_PROPERTY_TAG == "stringProperty"

TRACE_PROPERTY_TAG == "traceProperty"

PropertyTags == {STRING_PROPERTY_TAG, UNIT_PROPERTY_TAG, TRACE_PROPERTY_TAG}

\* KindOf that takes the tag of a unit property in any spelling of its case
KindOf_AnyCase(tag) ==
    IF tag \in PropertyTags THEN tag
    ELSE IF tag \in {"unitproperty", "UnitProperty"} THEN UNIT_PROPERTY_TAG
    ELSE ""

\* the kind of property create builds for a tag: the tag itself when it is
\* a property's, none ("") for any other
KindOf(tag) == IF tag \in PropertyTags THEN tag ELSE ""

\* the heap with the list and the Measurement create builds for the n-th
\* property from the element x
CreatedLists(n, x) ==
    [lists EXCEPT ![MaxLists + n] = [items |-> ElementUnits(x), live |-> TRUE]]

CreatedMeas(n, x) ==
    [meas EXCEPT ![MaxMeas + n] =
        [value |-> ElementMeasurement(x).value, unit |-> ElementMeasurement(x).unit,
         live  |-> TRUE]]

\* an exception leaves nothing of what the call built
Unwound(r) == IF r.err # "" THEN Failed(r.err, lists, meas) ELSE r

\* create of a unit property element: the Measurement is built, then the
\* property; the exception of either reaches the caller of create
CreateUnitProperty(n, x) ==
    IF ElementMeasurement(x).err # "" THEN Failed(ElementMeasurement(x).err, lists, meas)
    ELSE Unwound(UnitPropertyPostInit(n, CreatedLists(n, x), CreatedMeas(n, x),
                                      PyListOf(MaxLists + n), PyMeas(MaxMeas + n)))

\* PropertyFactory.create(x) for an element of a tag that is no property's
CreateUnknown(x) ==
    /\ KindOf(x.tag) = ""
    /\ call' = [op |-> "create", a |-> PyNone, b |-> PyNone, err |-> "", ret |-> 0]
    /\ xml' = [in |-> x, made |-> 0, out |-> NoElement, of |-> 0]
    /\ before' = NoFields
    /\ UNCHANGED <<lists, meas, props, atReturn, text, eqv, given, trace, appVars>>

\* PropertyFactory.create(x) for a unit property element
Create(x) ==
    /\ Len(props) < MaxProps
    /\ KindOf(x.tag) = UNIT_PROPERTY_TAG
    /\ Constructed("create", NoOrigin, ElementArgs(x), PyListOf(MaxLists + Len(props) + 1),
                   PyMeas(MaxMeas + Len(props) + 1),
                   CreateUnitProperty(Len(props) + 1, x))
    /\ xml' = [in   |-> x,
               made |-> IF CreateUnitProperty(Len(props) + 1, x).err = ""
                        THEN Len(props) + 1 ELSE 0,
               out  |-> NoElement,
               of   |-> 0]

\* p.generate_xml()
GenerateXmlOf(p) ==
    /\ p \in 1..Len(props)
    /\ xml' = [xml EXCEPT !.out = GenerateXml(lists, meas, props[p]), !.of = p]
    /\ call' = [op |-> "generate_xml", a |-> PyProp(p), b |-> PyNone, err |-> "",
                ret |-> 0]
    /\ before' = NoFields
    /\ UNCHANGED <<lists, meas, props, atReturn, text, eqv, given, trace, appVars>>

-----------------------------------------------------------------------------
(***************************************************************************)
(* Reading and comparing Measurements.                                     *)
(***************************************************************************)
\* MeasurementEq that compares the values alone
MeasurementEq_ValueOnly(self, other) ==
    IF other.t # "Measurement" THEN FALSE
    ELSE FloatEq(self.value, other.value)

\* Measurement.__eq__(self, other): other is [t, value, unit], t its type
MeasurementEq(self, other) ==
    IF other.t # "Measurement" THEN FALSE
    ELSE FloatEq(self.value, other.value) /\ self.unit = other.unit

\* the object a Python value names, as __eq__ sees it
Operand(v) ==
    IF v.t = "Measurement"
    THEN [t |-> v.t, value |-> meas[v.i].value, unit |-> meas[v.i].unit]
    ELSE [t |-> v.t, value |-> Zero, unit |-> <<>>]

\* m.to_string()
to_string(m) ==
    /\ m \in LiveMeas
    /\ text' = MeasurementToString(meas[m])
    /\ call' = [op |-> "to_string", a |-> PyMeas(m), b |-> PyNone, err |-> "", ret |-> 0]
    /\ before' = Fields(meas[m])
    /\ UNCHANGED <<lists, meas, props, atReturn, eqv, given, xml, trace, appVars>>

\* m == other, other an object at hand
Eq(m, other) ==
    /\ m \in LiveMeas
    /\ eqv' = MeasurementEq(meas[m], Operand(other))
    /\ call' = [op |-> "eq", a |-> PyMeas(m), b |-> other, err |-> "", ret |-> 0]
    /\ before' = Fields(meas[m])
    /\ UNCHANGED <<lists, meas, props, atReturn, text, given, xml, trace, appVars>>

\* m == Measurement(value, unit): the right operand is built for the comparison
EqNew(m, value, unit) ==
    /\ m \in LiveMeas
    /\ LET r == MeasurementPostInit(value, unit)
       IN  /\ eqv' = IF r.err = ""
                     THEN MeasurementEq(meas[m], [t |-> "Measurement", value |-> r.value,
                                                  unit |-> r.unit])
                     ELSE eqv
           /\ call' = [op |-> "eq_new", a |-> value, b |-> unit, err |-> r.err, ret |-> 0]
    /\ before' = Fields(meas[m])
    /\ UNCHANGED <<lists, meas, props, atReturn, text, given, xml, trace, appVars>>

-----------------------------------------------------------------------------
(***************************************************************************)
(* Comparing properties.                                                   *)
(***************************************************************************)
\* the object a Python value names, as compare sees it
PropertyOperand(v) ==
    IF v.t = "UnitProperty" THEN [t |-> v.t, p |-> props[v.i]]
    ELSE [t |-> v.t, p |-> [units |-> 0, value |-> 0]]

\* Property.compare(self, other): other is a property of the same kind
\* with the same common attributes
PropertyCompare(self, other) ==
    IF other.t # "UnitProperty" THEN FALSE ELSE SameCommon(self, other.p)

\* UnitPropertyCompare that takes the units for a set: neither their order
\* nor their number counts
UnitPropertyCompare_UnitsAsSet(ls, ms, self, other) ==
    IF ~PropertyCompare(self, other) THEN FALSE
    ELSE /\ Range(ls[self.units].items) = Range(ls[other.p.units].items)
         /\ MeasurementEq(ms[self.value],
                          [t |-> "Measurement", value |-> ms[other.p.value].value,
                           unit |-> ms[other.p.value].unit])

\* UnitPropertyCompare that leaves the values out
UnitPropertyCompare_NoValue(ls, ms, self, other) ==
    IF ~PropertyCompare(self, other) THEN FALSE
    ELSE ls[self.units].items = ls[other.p.units].items

\* lines 204-214: UnitProperty.compare; and reads other.units and
\* other.value only when the comparison of the base holds
UnitPropertyCompare(ls, ms, self, other) ==
    IF ~PropertyCompare(self, other) THEN FALSE
    ELSE /\ ls[self.units].items = ls[other.p.units].items
         /\ MeasurementEq(ms[self.value],
                          [t |-> "Measurement", value |-> ms[other.p.value].value,
                           unit |-> ms[other.p.value].unit])

\* p.compare(other)
Compare(p, other) ==
    /\ p \in 1..Len(props)
    /\ other.t = "UnitProperty" => other.i \in 1..Len(props)
    /\ eqv' = UnitPropertyCompare(lists, meas, props[p], PropertyOperand(other))
    /\ call' = [op |-> "compare", a |-> PyProp(p), b |-> other, err |-> "", ret |-> 0]
    /\ before' = NoFields
    /\ UNCHANGED <<lists, meas, props, atReturn, text, given, xml, trace, appVars>>

-----------------------------------------------------------------------------
(***************************************************************************)
(* Trace properties: the value is a list of targets, limited by            *)
(* maxTargetsNumber, with the classes accepted and excluded and a type.    *)
(***************************************************************************)
NO_TARGETS_LIMIT == -1

PROTEUS_ANY == <<"*">>

DEFAULT_TRACE_TYPE == <<"p">>

TRACE_TAG == "trace"

TARGET_ATTRIBUTE == "target"

ACCEPTED_TARGETS_ATTRIBUTE == "acceptedTargets"

EXCLUDED_TARGETS_ATTRIBUTE == "excludedTargets"

TRACE_TYPE_ATTRIBUTE == "traceType"

MAX_TARGETS_NUMBER_ATTRIBUTE == "maxTargetsNumber"

NotEmpty(s) == s # <<>>

\* the targets without the empty strings; what is no list has no targets
FilterTargets(targets) ==
    IF targets.t = "list" THEN SelectSeq(targets.l, NotEmpty) ELSE <<>>

\* NormAccepted that splits a string into the classes it names
NormAccepted_SplitString(acceptedTargets) ==
    IF acceptedTargets.t = "list" /\ acceptedTargets.l # <<>> THEN acceptedTargets.l
    ELSE IF acceptedTargets.t = "str" /\ Split(acceptedTargets.s) # <<>>
    THEN Split(acceptedTargets.s)
    ELSE <<PROTEUS_ANY>>

\* what is no list, or an empty one, accepts any class
NormAccepted(acceptedTargets) ==
    IF acceptedTargets.t = "list" /\ acceptedTargets.l # <<>> THEN acceptedTargets.l
    ELSE <<PROTEUS_ANY>>

\* what is no list excludes nothing
NormExcluded(excludedTargets) ==
    IF excludedTargets.t = "list" THEN excludedTargets.l ELSE <<>>

\* a type that is None or empty is the default type
NormTraceType(traceType) ==
    IF traceType.t = "str" /\ traceType.s # <<>> THEN traceType.s ELSE DEFAULT_TRACE_TYPE

\* a maximum that is no positive integer is no limit
NormMax(maxTargetsNumber) ==
    IF maxTargetsNumber.t = "int" /\ maxTargetsNumber.i > 0 THEN maxTargetsNumber.i
    ELSE NO_TARGETS_LIMIT

\* Truncate that refuses nothing and cuts nothing
Truncate_Kept(value, max) == value

\* the first max of the targets, all of them without a limit
Truncate(value, max) ==
    IF max # NO_TARGETS_LIMIT /\ Len(value) > max THEN SubSeq(value, 1, max) ELSE value

\* TraceProperty.__post_init__ on the arguments args
TracePostInit(args) ==
    [made             |-> TRUE,
     from             |-> NoElement,
     args             |-> args,
     value            |-> Truncate(FilterTargets(args.targets),
                                   NormMax(args.maxTargetsNumber)),
     acceptedTargets  |-> NormAccepted(args.acceptedTargets),
     excludedTargets  |-> NormExcluded(args.excludedTargets),
     traceType        |-> NormTraceType(args.traceType),
     maxTargetsNumber |-> NormMax(args.maxTargetsNumber)]

\* the text of an integer, as int() reads it: a sign, then digits
IsIntText(s) ==
    /\ Strip(s) # <<>>
    /\ IF Strip(s)[1] \in {"-", "+"}
       THEN Len(Strip(s)) > 1 /\ AllDigits(Tail(Strip(s)))
       ELSE AllDigits(Strip(s))

IntOfText(s) ==
    IF Strip(s)[1] = "-" THEN 0 - DigitsToInt(Tail(Strip(s)))
    ELSE IF Strip(s)[1] = "+" THEN DigitsToInt(Tail(Strip(s)))
    ELSE DigitsToInt(Strip(s))

\* the children of the element x that name a target
IsTraceChild(c) == c.tag = TRACE_TAG /\ HasAttr(c, TARGET_ATTRIBUTE)

TargetOf(c) == GetAttr(c, TARGET_ATTRIBUTE).s

\* ElementTargets that skips only the children without a target attribute
ElementTargets_EmptyKept(x) ==
    [i \in 1..Len(SelectSeq(x.children, IsTraceChild)) |->
        TargetOf(SelectSeq(x.children, IsTraceChild)[i])]

\* the targets create reads: those of the trace children, in their order,
\* without the children that have no target or an empty one
ElementTargets(x) ==
    SelectSeq([i \in 1..Len(SelectSeq(x.children, IsTraceChild)) |->
                  TargetOf(SelectSeq(x.children, IsTraceChild)[i])],
              NotEmpty)

\* the classes an attribute of the element names, dflt without the attribute
ElementClasses(x, key, dflt) ==
    IF HasAttr(x, key) THEN Split(GetAttr(x, key).s) ELSE dflt

ElementTraceType(x) ==
    IF HasAttr(x, TRACE_TYPE_ATTRIBUTE) THEN GetAttr(x, TRACE_TYPE_ATTRIBUTE).s
    ELSE DEFAULT_TRACE_TYPE

ElementMax(x) ==
    IF HasAttr(x, MAX_TARGETS_NUMBER_ATTRIBUTE)
       /\ IsIntText(GetAttr(x, MAX_TARGETS_NUMBER_ATTRIBUTE).s)
    THEN IntOfText(GetAttr(x, MAX_TARGETS_NUMBER_ATTRIBUTE).s)
    ELSE NO_TARGETS_LIMIT

\* the arguments create calls the TraceProperty constructor with
ElementTraceArgs(x) ==
    TraceArgs(TList(ElementTargets(x)),
              TList(ElementClasses(x, ACCEPTED_TARGETS_ATTRIBUTE, <<PROTEUS_ANY>>)),
              TList(ElementClasses(x, EXCLUDED_TARGETS_ATTRIBUTE, <<>>)),
              TStr(ElementTraceType(x)),
              TInt(ElementMax(x)))

\* TraceProperty(..., targets, ..., acceptedTargets, excludedTargets,
\* traceType, maxTargetsNumber)
ConstructTrace(args) ==
    /\ trace' = TracePostInit(args)
    /\ call' = [op |-> "TraceProperty", a |-> PyNone, b |-> PyNone, err |-> "",
                ret |-> 0]
    /\ before' = NoFields
    /\ UNCHANGED <<lists, meas, props, atReturn, text, eqv, given, xml, appVars>>

\* PropertyFactory.create(x) for a trace property element
CreateTrace(x) ==
    /\ KindOf(x.tag) = TRACE_PROPERTY_TAG
    /\ trace' = [TracePostInit(ElementTraceArgs(x)) EXCEPT !.from = x]
    /\ call' = [op |-> "create", a |-> PyNone, b |-> PyNone, err |-> "", ret |-> 0]
    /\ before' = NoFields
    /\ UNCHANGED <<lists, meas, props, atReturn, text, eqv, given, xml, appVars>>

\* the common attributes of the trace property: those of the element it is
\* made of, the defaults when the constructor was called without them
TraceCommon(tr) ==
    PropertyPostInit(IF tr.from = NoElement THEN NoArgs ELSE ElementArgs(tr.from))

\* TraceAttrib that writes the accepted classes always
TraceAttrib_AcceptedAlways(tr) ==
    <<<<ACCEPTED_TARGETS_ATTRIBUTE, Join(tr.acceptedTargets)>>>>
    \o (IF tr.excludedTargets # <<>>
        THEN <<<<EXCLUDED_TARGETS_ATTRIBUTE, Join(tr.excludedTargets)>>>> ELSE <<>>)
    \o <<<<TRACE_TYPE_ATTRIBUTE, tr.traceType>>>>
    \o (IF tr.maxTargetsNumber # NO_TARGETS_LIMIT /\ tr.maxTargetsNumber > 0
        THEN <<<<MAX_TARGETS_NUMBER_ATTRIBUTE, DigitsOf(tr.maxTargetsNumber)>>>>
        ELSE <<>>)

\* the attributes of the trace kind TraceProperty.generate_xml sets: the
\* accepted classes unless they are any class, the excluded classes unless
\* there is none, the type, and the limit when there is one
TraceAttrib(tr) ==
    (IF tr.acceptedTargets # <<PROTEUS_ANY>>
     THEN <<<<ACCEPTED_TARGETS_ATTRIBUTE, Join(tr.acceptedTargets)>>>> ELSE <<>>)
    \o (IF tr.excludedTargets # <<>>
        THEN <<<<EXCLUDED_TARGETS_ATTRIBUTE, Join(tr.excludedTargets)>>>> ELSE <<>>)
    \o <<<<TRACE_TYPE_ATTRIBUTE, tr.traceType>>>>
    \o (IF tr.maxTargetsNumber # NO_TARGETS_LIMIT /\ tr.maxTargetsNumber > 0
        THEN <<<<MAX_TARGETS_NUMBER_ATTRIBUTE, DigitsOf(tr.maxTargetsNumber)>>>>
        ELSE <<>>)

\* generate_xml_value of a trace property: a child for each target, with
\* the target and the type of the trace
TraceChildren(tr) ==
    [i \in 1..Len(tr.value) |->
        Element(TRACE_TAG,
                <<<<TARGET_ATTRIBUTE, tr.value[i]>>,
                  <<TRACE_TYPE_ATTRIBUTE, tr.traceType>>>>,
                <<>>, <<>>)]

\* TraceProperty.generate_xml: the element of Property.generate_xml with
\* the attributes of the trace kind after the common ones
TraceGenerateXml(tr) ==
    Element(TRACE_PROPERTY_TAG, CommonAttrib(TraceCommon(tr)) \o TraceAttrib(tr), <<>>,
            TraceChildren(tr))

\* generate_xml() of the trace property constructed last
GenerateXmlOfTrace ==
    /\ trace.made
    /\ xml' = [in |-> trace.from, made |-> 0, out |-> TraceGenerateXml(trace), of |-> 0]
    /\ call' = [op |-> "generate_xml", a |-> PyNone, b |-> PyNone, err |-> "",
                ret |-> 0]
    /\ before' = NoFields
    /\ UNCHANGED <<lists, meas, props, atReturn, text, eqv, given, trace, appVars>>
-----------------------------------------------------------------------------
(***************************************************************************)
(* The verification plugin: VerificationManager.store_verification stores  *)
(* the output of a verification in three properties of the object.         *)
(***************************************************************************)
MaxStores == 2      \* calls of store_verification

VERIFICATION_CATEGORY == <<"a", "i", "_", "v">>

VERIFICATION_PROPERTY_DATE_NAME == <<"a", "i", "_", "v", "_", "d">>

VERIFICATION_PROPERTY_TIME_NAME == <<"a", "i", "_", "v", "_", "t">>

VERIFICATION_PROPERTY_OUTPUT_NAME == OutputKey

HasKey(d, key) == \E i \in 1..Len(d) : d[i].key = key

\* d[key] = prop: the entry of the key is rebound in its place, a new key
\* is inserted last
DictSet(d, key, prop) ==
    IF HasKey(d, key)
    THEN [i \in 1..Len(d) |-> IF d[i].key = key THEN Entry(key, prop) ELSE d[i]]
    ELSE Append(d, Entry(key, prop))

\* lines 58-73: a property of the kind, with the name, the category
\* ai_verification and inmutable True; the other attributes take their
\* defaults
VerificationProperty(kind, name, value, made) ==
    StoredProperty(kind,
                   PropertyPostInit(Args(PyStr(name), PyStr(VERIFICATION_CATEGORY),
                                         PyNone, PyNone, PyBool(TRUE))),
                   value, made)

\* lines 76-79: the three properties are bound to their names in the
\* properties of the object; date and time have the value of their default,
\* the day and the time of the call, which the clock gives
Stored(pr, id, out) ==
    [pr EXCEPT
        !.objects[id].properties =
            DictSet(DictSet(DictSet(@, VERIFICATION_PROPERTY_DATE_NAME,
                                    VerificationProperty("DateProperty",
                                        VERIFICATION_PROPERTY_DATE_NAME,
                                        DigitsOf(pr.stores + 1), pr.stores + 1)),
                            VERIFICATION_PROPERTY_TIME_NAME,
                            VerificationProperty("TimeProperty",
                                VERIFICATION_PROPERTY_TIME_NAME,
                                DigitsOf(pr.stores + 1), pr.stores + 1)),
                    VERIFICATION_PROPERTY_OUTPUT_NAME,
                    VerificationProperty("MarkdownProperty",
                        VERIFICATION_PROPERTY_OUTPUT_NAME, out, pr.stores + 1))]

\* line 81
Dirty(pr, id) == [pr EXCEPT !.objects[id].state = "DIRTY"]

\* line 84: the event reaches its subscribers, who see the object as it
\* is now
Notified(pr, id) == [pr EXCEPT !.seen = pr.objects[id].state]

\* store_verification that notifies before it marks the object
StoreVerificationOf_NotifyFirst(pr, id, out) ==
    Dirty(Notified(Stored(pr, id, out), id), id)

\* lines 54-84: store_verification(id, verification_output)
StoreVerificationOf(pr, id, out) ==
    Notified(Dirty(Stored(pr, id, out), id), id)

\* the history of the call that made pr of old: it is counted, the
\* properties of the object before it and the number of them after the
\* first call for it are kept
Counted(old, pr, id) ==
    [pr EXCEPT !.stores = @ + 1,
               !.prev = old.objects[id].properties,
               !.first[id] = IF @ = 0 THEN Len(pr.objects[id].properties) ELSE @]

store_verification(id, out) ==
    /\ project.objects # <<>>
    /\ project.stores < MaxStores
    /\ project' = Counted(project, StoreVerificationOf(project, id, out), id)
    /\ call' = [op |-> "store_verification", a |-> PyInt(id), b |-> PyStr(out),
                err |-> "", ret |-> 0]
    /\ UNCHANGED <<lists, meas, props, atReturn, before, text, eqv, given, xml, trace,
                   fs, prune, exporter, form>>

\* a project is opened: its objects are loaded
OpenProject ==
    /\ project.objects = <<>>
    /\ project' = [project EXCEPT !.objects = LoadedObjects]
    /\ call' = [op |-> "open", a |-> PyNone, b |-> PyNone, err |-> "", ret |-> 0]
    /\ UNCHANGED <<lists, meas, props, atReturn, before, text, eqv, given, xml, trace,
                   fs, prune, exporter, form>>

\* the property of the key in the dict
DictGet(d, key) == d[CHOOSE i \in 1..Len(d) : d[i].key = key].prop

\* the user edits the property key of the object id in its form: the
\* entry is replaced by a clone with the new value, and the object needs
\* saving
UpdateProperty(id, key, value) ==
    /\ project.objects # <<>>
    /\ HasKey(project.objects[id].properties, key)
    /\ project' =
          [project EXCEPT
              !.objects[id].properties =
                  DictSet(@, key, [DictGet(@, key) EXCEPT !.value = value, !.made = 0]),
              !.objects[id].state = "DIRTY"]
    /\ call' = [op |-> "update", a |-> PyInt(id), b |-> PyStr(key), err |-> "",
                ret |-> 0]
    /\ UNCHANGED <<lists, meas, props, atReturn, before, text, eqv, given, xml, trace,
                   fs, prune, exporter, form>>

\* the project is saved: its objects are clean
SaveProject ==
    /\ project.objects # <<>>
    /\ project' = [project EXCEPT
                      !.objects = [id \in ObjectIds |->
                                      [project.objects[id] EXCEPT !.state = "CLEAN"]]]
    /\ call' = [op |-> "save", a |-> PyNone, b |-> PyNone, err |-> "", ret |-> 0]
    /\ UNCHANGED <<lists, meas, props, atReturn, before, text, eqv, given, xml, trace,
                   fs, prune, exporter, form>>

-----------------------------------------------------------------------------
(***************************************************************************)
(* The disk, and remove_empty_directories of the LaTeX export.             *)
(***************************************************************************)
Exists(f, p) == p \in DOMAIN f

IsDir(f, p) == p \in DOMAIN f /\ f[p] = "dir"

IsFile(f, p) == p \in DOMAIN f /\ f[p] = "file"

\* q is p or a path beneath p
IsPrefix(p, q) == Len(p) <= Len(q) /\ SubSeq(q, 1, Len(p)) = p

\* the entries of the directory p
Entries(f, p) == {q \in DOMAIN f : Len(q) = Len(p) + 1 /\ IsPrefix(p, q)}

\* the disk without the paths of the set
Without(f, gone) == [q \in (DOMAIN f) \ gone |-> f[q]]

\* the names of entries, in the order of a listing
EntryNames ==
    <<"a", "b", "assets", "compile", "d", "e", "k", "main.tex", "o", "p", "r", "s.sty",
      "t", "x.xsl">>

Reverse(l) == [i \in 1..Len(l) |-> l[Len(l) + 1 - i]]

\* list(path.iterdir()): the entries of p, in the order the system gives
\* them in, which is any: up or down the names
Listing(f, p, order) ==
    IF order = "up"
    THEN SelectSeq([i \in 1..Len(EntryNames) |-> Append(p, EntryNames[i])],
                   LAMBDA q : q \in DOMAIN f)
    ELSE Reverse(SelectSeq([i \in 1..Len(EntryNames) |-> Append(p, EntryNames[i])],
                           LAMBDA q : q \in DOMAIN f))

\* RmdirIfEmpty that removes nothing
RmdirIfEmpty_Never(f, p) == f

\* lines 388-389: the directory is removed if it has no entry now
RmdirIfEmpty(f, p) == IF Entries(f, p) = {} THEN Without(f, {p}) ELSE f

RECURSIVE RemoveEmptyDirectories(_, _, _)
RECURSIVE Visit(_, _, _)
\* lines 385-386: the call for each entry of the listing, in its order
Visit(f, todo, order) ==
    IF todo = <<>> THEN f
    ELSE Visit(RemoveEmptyDirectories(f, Head(todo), order), Tail(todo), order)

\* lines 375-389: remove_empty_directories(path), the disk it leaves
RemoveEmptyDirectories(f, p, order) ==
    IF ~IsDir(f, p) THEN f
    ELSE RmdirIfEmpty(Visit(f, Listing(f, p, order), order), p)

\* a call that has not returned: its path, and the entries still to visit
Frame(p, todo) == [path |-> p, todo |-> todo]

\* lines 382-385: remove_empty_directories(path) is called: it returns at
\* once for what is no directory, and lists the entries of a directory
remove_empty_directories(path, order) ==
    /\ prune.phase = "idle"
    /\ prune' = [phase |-> IF IsDir(fs, path) THEN "running" ELSE "done",
                 root  |-> path,
                 order |-> order,
                 fs0   |-> fs,
                 stack |-> IF IsDir(fs, path)
                           THEN <<Frame(path, Listing(fs, path, order))>> ELSE <<>>]
    /\ UNCHANGED <<modelVars, project, fs, exporter, form>>

\* the stack without its top frame, and the phase then
Returned(pr) ==
    [pr EXCEPT !.stack = SubSeq(@, 1, Len(@) - 1),
               !.phase = IF Len(pr.stack) = 1 THEN "done" ELSE "running"]

\* lines 385-386: the loop of the innermost call takes its next entry and
\* calls remove_empty_directories for it, which lists it if it is a
\* directory and returns at once if not
VisitNext ==
    /\ prune.phase = "running"
    /\ prune.stack[Len(prune.stack)].todo # <<>>
    /\ prune' =
          [prune EXCEPT
              !.stack =
                  [@ EXCEPT ![Len(@)].todo = Tail(@)]
                  \o (IF IsDir(fs, Head(prune.stack[Len(prune.stack)].todo))
                      THEN <<Frame(Head(prune.stack[Len(prune.stack)].todo),
                                   Listing(fs, Head(prune.stack[Len(prune.stack)].todo),
                                           prune.order))>>
                      ELSE <<>>)]
    /\ UNCHANGED <<modelVars, project, fs, exporter, form>>

\* lines 388-389: the loop of the innermost call is over: the directory is
\* removed if it is empty now, and the call returns
RemoveAndReturn ==
    /\ prune.phase = "running"
    /\ prune.stack[Len(prune.stack)].todo = <<>>
    /\ fs' = RmdirIfEmpty(fs, prune.stack[Len(prune.stack)].path)
    /\ prune' = Returned(prune)
    /\ UNCHANGED <<modelVars, project, exporter, form>>

\* files and directories are put on the disk by others, between the calls
Populate(tree) ==
    /\ prune.phase # "running"
    /\ fs' = tree
    /\ prune' = NoPrune
    /\ exporter' = NoCallOf(exporter)
    /\ call' = [op |-> "populate", a |-> PyNone, b |-> PyNone, err |-> "", ret |-> 0]
    /\ UNCHANGED <<lists, meas, props, atReturn, before, text, eqv, given, xml, trace,
                   project, form>>

-----------------------------------------------------------------------------
(***************************************************************************)
(* The LaTeX export: the form and its validation.                          *)
(***************************************************************************)
\* the text the translator gives for a key
Translated(key) == "_(" \o key \o ")"

\* Path(path_text) / folder_name: the path itself for the empty name
ExportFolder(ex) ==
    IF ex.folder.text = "" THEN ex.path.p ELSE Append(ex.path.p, ex.folder.text)

\* ValidationError that does not look whether the folder exists
ValidationError_FolderNotChecked(f, ex) ==
    IF ex.path.empty THEN "error.empty"
    ELSE IF ~Exists(f, ex.path.p) THEN "error.not_found"
    ELSE IF ~IsDir(f, ex.path.p) THEN "error.not_directory"
    ELSE IF ~ex.folder.valid \/ ex.folder.text = "" THEN "error.invalid_folder_name"
    ELSE ""

\* lines 325-367: the key of the message of the first check that fails,
\* "" when none does
ValidationError(f, ex) ==
    IF ex.path.empty THEN "error.empty"
    ELSE IF ~Exists(f, ex.path.p) THEN "error.not_found"
    ELSE IF ~IsDir(f, ex.path.p) THEN "error.not_directory"
    ELSE IF ~ex.folder.valid \/ ex.folder.text = "" THEN "error.invalid_folder_name"
    ELSE IF Exists(f, ExportFolder(ex)) THEN "error.folder_exists"
    ELSE ""

\* lines 311-371: _validate_directory: the label shows the message, or is
\* hidden with the text it had, and the signal is emitted
Validated(f, ex) ==
    [ex EXCEPT
        !.label   = IF ValidationError(f, ex) = "" THEN [@ EXCEPT !.hidden = TRUE]
                    ELSE [hidden |-> FALSE,
                          text   |-> Translated(ValidationError(f, ex))],
        !.signals = <<Signal("ready", 0, ValidationError(f, ex) = "", <<>>)>>,
        !.raised  = "",
        !.ran     = 0,
        !.fs0     = NoFiles,
        !.failed  = ""]

\* lines 294 and 311-371: the text of the path input changes, and
\* _validate_directory, connected to textChanged, is called
EditPath(path) ==
    /\ path # exporter.path
    /\ exporter' = Validated(fs, [exporter EXCEPT !.path = path])
    /\ call' = [op |-> "_validate_directory", a |-> PyNone, b |-> PyNone, err |-> "",
                ret |-> 0]
    /\ UNCHANGED <<lists, meas, props, atReturn, before, text, eqv, given, xml, trace,
                   project, fs, prune, form>>

\* lines 295 and 311-371: the text of the folder name input changes
EditFolderName(folder) ==
    /\ folder # exporter.folder
    /\ exporter' = Validated(fs, [exporter EXCEPT !.folder = folder])
    /\ call' = [op |-> "_validate_directory", a |-> PyNone, b |-> PyNone, err |-> "",
                ret |-> 0]
    /\ UNCHANGED <<lists, meas, props, atReturn, before, text, eqv, given, xml, trace,
                   project, fs, prune, form>>

(***************************************************************************)
(* The LaTeX export: export writes the folder with the LaTeX file, the     *)
(* assets and the files of the template, and runs pdflatex.  A run is the  *)
(* disk (f), the signals emitted so far (sig) and the exception raised     *)
(* (err, "" when none was); a step of a run that raised does nothing.      *)
(***************************************************************************)
Run(f, sig, err) == [f |-> f, sig |-> sig, err |-> err]

Emit(run, signal) == IF run.err # "" THEN run ELSE [run EXCEPT !.sig = Append(@, signal)]

Progress(n) == Signal("progress", n, FALSE, <<>>)

Finished(folder, ok) == Signal("finished", 0, ok, folder)

\* a step that the system refuses (no space, no permission) raises OSError
Refused(run, fault, step) ==
    IF run.err = "" /\ fault = step THEN [run EXCEPT !.err = "OSError"] ELSE run

\* the disk with the path p of the kind
With(f, p, kind) == [q \in (DOMAIN f) \cup {p} |-> IF q = p THEN kind ELSE f[q]]

\* the directories above p
Ancestors(p) == {SubSeq(p, 1, k) : k \in 0..(Len(p) - 1)}

\* line 110: export_folder.mkdir(parents=True) refuses a path that exists
\* and a path beneath a file; it makes the directory and those above it
Mkdir(run, p) ==
    IF run.err # "" THEN run
    ELSE IF Exists(run.f, p) THEN [run EXCEPT !.err = "FileExistsError"]
    ELSE IF \E a \in Ancestors(p) : IsFile(run.f, a)
    THEN [run EXCEPT !.err = "NotADirectoryError"]
    ELSE [run EXCEPT !.f = [q \in (DOMAIN run.f) \cup Ancestors(p) \cup {p} |->
                               IF q \in DOMAIN run.f THEN run.f[q] ELSE "dir"]]

\* lines 114 and 186: the file is made, or written
WriteFile(run, p) == IF run.err # "" THEN run ELSE [run EXCEPT !.f = With(@, p, "file")]

\* lines 120-122: without a latex block re.search returns None, which has
\* no group
Extracted(run, html) ==
    IF run.err = "" /\ ~html.latex THEN [run EXCEPT !.err = "AttributeError"] ELSE run

\* the names shutil.ignore_patterns("*.xsl", "*.xml", "*.js") and the
\* suffixes of line 141 leave out, among the names of entries
IgnoredNames == {"x.xsl"}

\* the paths at or beneath src that copytree copies: those without an
\* ignored name beneath src
Copied(f, src, ignored) ==
    {q \in DOMAIN f :
        /\ IsPrefix(src, q)
        /\ \A i \in (Len(src) + 1)..Len(q) : q[i] \notin ignored}

\* shutil.copytree(src, dst, ignore): dst must not exist
CopyTree(run, src, dst, ignored) ==
    IF run.err # "" THEN run
    ELSE IF ~IsDir(run.f, src) THEN [run EXCEPT !.err = "NotADirectoryError"]
    ELSE IF Exists(run.f, dst) THEN [run EXCEPT !.err = "FileExistsError"]
    ELSE [run EXCEPT !.f =
             [r \in (DOMAIN run.f)
                    \cup {dst \o SubSeq(q, Len(src) + 1, Len(q)) :
                             q \in Copied(run.f, src, ignored)} |->
                 IF r \in DOMAIN run.f THEN run.f[r]
                 ELSE run.f[src \o SubSeq(r, Len(dst) + 1, Len(r))]]]

ASSETS_REPOSITORY == "assets"

\* StateManager().current_project_path and template.path
ProjectPath == <<"p">>

TemplatePath == <<"t">>

\* lines 128-132: the assets of the project are copied, if it has any
AssetsCopied(run, folder) ==
    IF run.err = "" /\ Exists(run.f, Append(ProjectPath, ASSETS_REPOSITORY))
    THEN CopyTree(run, Append(ProjectPath, ASSETS_REPOSITORY),
                  Append(folder, ASSETS_REPOSITORY), {})
    ELSE run

\* lines 141-151: an entry of the template is copied: a file unless its
\* suffix is one of the three, into the directory of its name if there is
\* one, and a directory with what is beneath it
EntryCopied(run, e, folder) ==
    IF run.err # "" THEN run
    ELSE IF IsFile(run.f, e)
    THEN IF e[Len(e)] \in IgnoredNames THEN run
         ELSE IF IsDir(run.f, Append(folder, e[Len(e)]))
         THEN WriteFile(run, Append(Append(folder, e[Len(e)]), e[Len(e)]))
         ELSE WriteFile(run, Append(folder, e[Len(e)]))
    ELSE CopyTree(run, e, Append(folder, e[Len(e)]), IgnoredNames)

\* line 140: the loop over the entries of the template
RECURSIVE TemplateCopied(_, _, _)
TemplateCopied(run, todo, folder) ==
    IF todo = <<>> THEN run
    ELSE TemplateCopied(EntryCopied(run, Head(todo), folder), Tail(todo), folder)

\* lines 159-165: the files of the copied assets that the LaTeX code does
\* not name are removed; iterdir raises for what is no directory
AssetsPruned(run, folder, html) ==
    IF run.err # "" \/ ~Exists(run.f, Append(folder, ASSETS_REPOSITORY)) THEN run
    ELSE IF ~IsDir(run.f, Append(folder, ASSETS_REPOSITORY))
    THEN [run EXCEPT !.err = "NotADirectoryError"]
    ELSE [run EXCEPT !.f =
             Without(@, {q \in Entries(run.f, Append(folder, ASSETS_REPOSITORY)) :
                            IsFile(run.f, q) /\ q[Len(q)] \notin html.uses})]

\* line 168
EmptyRemoved(run, folder, order) ==
    IF run.err # "" THEN run
    ELSE [run EXCEPT !.f = RemoveEmptyDirectories(@, folder, order)]

\* lines 106-116: the folder and the file main.tex are made
FolderMade(run, folder, fault) ==
    Emit(WriteFile(Refused(Mkdir(Refused(run, fault, "mkdir"), folder), fault, "touch"),
                   Append(folder, "main.tex")),
         Progress(5))

\* lines 120-134
AssetsDone(run, folder, html, fault) ==
    Emit(AssetsCopied(Refused(Emit(Extracted(run, html), Progress(15)), fault, "assets"),
                      folder),
         Progress(30))

\* line 140: iterdir raises for a template that is no directory
TemplateListed(run) ==
    IF run.err # "" \/ IsDir(run.f, TemplatePath) THEN run
    ELSE IF Exists(run.f, TemplatePath) THEN [run EXCEPT !.err = "NotADirectoryError"]
    ELSE [run EXCEPT !.err = "FileNotFoundError"]

\* lines 138-153
TemplateDone(run, folder, fault, order) ==
    Emit(TemplateCopied(TemplateListed(Refused(run, fault, "template")),
                        Listing(run.f, TemplatePath, order), folder),
         Progress(40))

\* lines 159-186
Written(run, folder, html, fault, order) ==
    WriteFile(Refused(Emit(EmptyRemoved(AssetsPruned(Refused(run, fault, "unlink"),
                                                     folder, html),
                                        folder, order),
                           Progress(60)),
                      fault, "write"),
              Append(folder, "main.tex"))

\* lines 106-186: the first part of export
LatexPart(f, folder, html, fault, order) ==
    Written(TemplateDone(AssetsDone(FolderMade(Run(f, <<>>, ""), folder, fault),
                                    folder, html, fault),
                         folder, fault, order),
            folder, html, fault, order)

\* shutil.rmtree(p): what is at and beneath p is removed; it raises for
\* what is no directory, and for the current directory, after it removed
\* what is in it
RmTree(run, p) ==
    IF ~IsDir(run.f, p) THEN [run EXCEPT !.err = "NotADirectoryError"]
    ELSE IF p = <<>>
    THEN [run EXCEPT !.f = Without(@, {q \in DOMAIN run.f : q # <<>>}),
                     !.err = "OSError"]
    ELSE [run EXCEPT !.f = Without(@, {q \in DOMAIN run.f : IsPrefix(p, q)})]

\* lines 187-196: the exception is caught, the signal emitted and the
\* folder removed if there is one
FailureHandled(run, folder) ==
    IF Exists(run.f, folder)
    THEN RmTree([run EXCEPT !.sig = Append(@, Finished(folder, FALSE)), !.err = ""],
                folder)
    ELSE [run EXCEPT !.sig = Append(@, Finished(folder, FALSE)), !.err = ""]

\* what the two runs of pdflatex do: both end well (ok), or the at-th
\* fails: with CalledProcessError, which is caught and shown; with
\* CalledProcessError and an output that is no UTF-8, which decode
\* refuses; or, pdflatex not being installed, with FileNotFoundError
PdfRuns(outcome, at) == [outcome |-> outcome, at |-> at]

\* lines 202-229: the exception that leaves the second part
PdfPart(run, checked, pdf) ==
    IF checked /\ pdf.outcome \in {"FileNotFoundError", "UnicodeDecodeError"}
    THEN [run EXCEPT !.err = pdf.outcome]
    ELSE run

\* the calls of pdflatex
PdfCalls(checked, pdf) == IF ~checked THEN 0 ELSE IF pdf.outcome = "ok" THEN 2 ELSE pdf.at

\* lines 231-233
Ended(run, folder) == Emit(Emit(run, Progress(100)), Finished(folder, TRUE))

\* lines 187-233: what follows the first part, whose run is latex
AfterLatexPart(latex, ex, pdf) ==
    IF latex.err # ""
    THEN [run    |-> FailureHandled(latex, ExportFolder(ex)),
          failed |-> latex.err,
          ran    |-> 0]
    ELSE [run    |-> Ended(PdfPart(latex, ex.pdf, pdf), ExportFolder(ex)),
          failed |-> "",
          ran    |-> PdfCalls(ex.pdf, pdf)]

\* lines 96-233: export(): its run, the exception its first part caught
\* and the calls of pdflatex
Exported(f, ex, html, fault, order, pdf) ==
    AfterLatexPart(LatexPart(f, ExportFolder(ex), html, fault, order), ex, pdf)

\* the exporter and the disk after the call of export that did r
ExportReturns(r) ==
    /\ exporter' = [exporter EXCEPT !.signals = r.run.sig,
                                    !.raised  = r.run.err,
                                    !.ran     = r.ran,
                                    !.failed  = r.failed,
                                    !.fs0     = fs]
    /\ fs' = r.run.f

export(html, fault, order, pdf) ==
    /\ ExportReturns(Exported(fs, exporter, html, fault, order, pdf))
    /\ call' = [op |-> "export", a |-> PyNone, b |-> PyNone, err |-> "", ret |-> 0]
    /\ UNCHANGED <<lists, meas, props, atReturn, before, text, eqv, given, xml, trace,
                   project, prune, form>>

\* the user checks or unchecks the generation of the PDF
SetPdfGeneration(checked) ==
    /\ checked # exporter.pdf
    /\ exporter' = NoCallOf([exporter EXCEPT !.pdf = checked])
    /\ call' = [op |-> "setChecked", a |-> PyNone, b |-> PyNone, err |-> "", ret |-> 0]
    /\ UNCHANGED <<lists, meas, props, atReturn, before, text, eqv, given, xml, trace,
                   project, fs, prune, form>>

-----------------------------------------------------------------------------
(***************************************************************************)
(* The input of a unit property in a form: UnitPropertyInput and its       *)
(* MeasurementEdit, a line edit for the value and a combo box for the      *)
(* unit.  The translator gives the text of an item: the translation of the *)
(* unit where it has one (tr), the unit itself where it has none.          *)
(***************************************************************************)
VALUE_ERROR == "unit_property_input.validator.value.error"

REQUIRED_ERROR == "property_input.validator.error.required"

\* _(f"archetype.enum_units.{unit}", alternative_text=unit)
TranslatedUnit(tr, unit) == IF unit \in DOMAIN tr THEN tr[unit] ELSE unit

\* measurement_edit.py lines 91-96: an item for each unit, its text from
\* the translator and the unit as its data; the first item added to a
\* combo box becomes the current one
UnitCombo(w, units, tr) ==
    [w EXCEPT !.units = units,
              !.texts = [i \in 1..Len(units) |-> TranslatedUnit(tr, units[i])],
              !.index = IF units = <<>> THEN 0 ELSE 1]

\* QComboBox.findData: the position of the first item with the data, 0
\* when there is none
FindData(w, unit) ==
    IF \E i \in 1..Len(w.units) : w.units[i] = unit
    THEN CHOOSE i \in 1..Len(w.units) :
            w.units[i] = unit /\ \A j \in 1..(i - 1) : w.units[j] # unit
    ELSE 0

\* QComboBox.currentText: the text of the current item, empty without one
CurrentText(w) == IF w.index = 0 THEN <<>> ELSE w.texts[w.index]

\* lines 122-126: MeasurementEdit.measurement
Measured(w) == [value |-> w.value, unit |-> CurrentText(w)]

\* lines 134-149: MeasurementEdit.setMeasurement: the value formatted with
\* g, and the item of the unit, or the first item for a unit that is not
\* the data of any
SetMeasurementOf(w, value, unit) ==
    [w EXCEPT !.value = FormatG(value),
              !.index = IF \E i \in 1..Len(w.units) : w.units[i] = unit
                        THEN FindData(w, unit)
                        ELSE IF w.units = <<>> THEN 0 ELSE FindData(w, w.units[1])]

\* unit_property_input.py lines 50-57: get_value: float(value) raises
\* ValueError for a text that is no number, and the constructor of
\* Measurement checks the unit
GetValue(w) ==
    IF ~ParseFloat(Measured(w).value).ok
    THEN Raise("ValueError")
    ELSE MeasurementPostInit(PyFloat(ParseFloat(Measured(w).value).f),
                             PyStr(Measured(w).unit))

\* lines 66-83: validate: the key of the error, "None" for None
Validate(w) ==
    IF ~ParseFloat(Measured(w).value).ok THEN VALUE_ERROR
    ELSE IF w.required /\ Measured(w).value = <<>> THEN REQUIRED_ERROR
    ELSE "None"

\* lines 93-99: create_input(property) for the input of the property, whose
\* units, value and required are given
create_input(units, value, unit, required, tr) ==
    /\ form' = [SetMeasurementOf(UnitCombo(NoForm, units, tr), value, unit)
                   EXCEPT !.required = required,
                          !.shown    = [value |-> value, unit |-> unit],
                          !.fresh    = TRUE]
    /\ UNCHANGED <<modelVars, project, fs, prune, exporter>>

\* lines 134-149: setMeasurement is called on the widget
setMeasurement(value, unit) ==
    /\ form.units # <<>>
    /\ form' = [SetMeasurementOf(form, value, unit) EXCEPT !.fresh = FALSE, !.out = NoOut]
    /\ UNCHANGED <<modelVars, project, fs, prune, exporter>>

\* the user selects the item at the position i of the combo box
SelectUnit(i) ==
    /\ i \in 1..Len(form.units)
    /\ form' = [form EXCEPT !.index = i, !.fresh = FALSE, !.out = NoOut]
    /\ UNCHANGED <<modelVars, project, fs, prune, exporter>>

\* the user types the text into the value edit
EditValue(chars) ==
    /\ form.units # <<>>
    /\ form' = [form EXCEPT !.value = chars, !.fresh = FALSE, !.out = NoOut]
    /\ UNCHANGED <<modelVars, project, fs, prune, exporter>>

\* lines 50-57
get_value ==
    /\ form.units # <<>>
    /\ form' = [form EXCEPT !.out = [op    |-> "get_value",
                                     err   |-> GetValue(form).err,
                                     value |-> GetValue(form).value,
                                     unit  |-> GetValue(form).unit,
                                     key   |-> ""]]
    /\ UNCHANGED <<modelVars, project, fs, prune, exporter>>

\* lines 66-83
validate ==
    /\ form.units # <<>>
    /\ form' = [form EXCEPT !.out = [NoOut EXCEPT !.op = "validate",
                                                  !.key = Validate(form)]]
    /\ UNCHANGED <<modelVars, project, fs, prune, exporter>>

-----------------------------------------------------------------------------
(***************************************************************************)
(* Spec: the caller builds lists and Measurements and constructs and       *)
(* clones unit properties from them.                                       *)
(***************************************************************************)
\* the units arguments that are strings with a token; the others, refused
\* before the value is read, are given with the value None alone, and the
\* values that are neither None nor a Measurement with the lists alone
TokenUnitsInputs == {u \in UnitsInputs : u.t = "str" /\ Strip(u.s) # <<>>}

Next ==
    \/ \E items \in ListInputs : NewList(items)
    \/ \E v \in HeapValueInputs, u \in HeapUnitInputs : NewMeasurement(v, u)
    \/ \E units \in UnitsInputs \ TokenUnitsInputs : Construct(units, PyNone)
    \/ \E units \in TokenUnitsInputs \cup {PyListOf(l) : l \in CallerLists},
          value \in {PyNone} \cup {PyMeas(m) : m \in CallerMeas} :
            Construct(units, value)
    \/ \E l \in CallerLists, value \in NonMeasurementInputs \ {PyNone} :
            Construct(PyListOf(l), value)
    \/ \E p \in 1..Len(props),
          v \in {PyNone} \cup {PyMeas(m) : m \in CallerMeas} : Clone(p, v)

Spec == Init /\ [][Next]_vars

(***************************************************************************)
(* SpecCaller: as Spec, and the caller goes on using the objects it passed *)
(* to the constructors: it appends to its lists, rewrites their elements   *)
(* and assigns to the fields of its Measurements.                          *)
(***************************************************************************)
NextCaller ==
    \/ Next
    \/ \E l \in 1..MaxLists, u \in UnitTokens : ListAppend(l, u)
    \/ \E l \in 1..MaxLists, i \in 1..MaxLen, u \in UnitTokens : ListRewrite(l, i, u)
    \/ \E m \in 1..MaxMeas, u \in UnitTokens : SetUnit(m, u)
    \/ \E m \in 1..MaxMeas, f \in {F(2, 0)} : SetValue(m, f)

SpecCaller == Init /\ [][NextCaller]_vars

(***************************************************************************)
(* SpecMeasurement: Measurements are constructed from values and units of  *)
(* every type, rendered as strings and compared.                           *)
(***************************************************************************)
ValueInputs ==
    {PyNone, PyListOf(0),
     PyInt(1), PyInt(-1), PyInt(1000000), PyInt(1234567),
     PyFloat(F(1, 0)), PyFloat(F(15, -1)), PyFloat(F(1, -5)), PyFloat(F(1234565, 0)),
     PyStr(<<"1">>), PyStr(<<"1", ".", "0">>), PyStr(<<"-", "1", ".", "0">>),
     PyStr(<<"1", ".", "0", ".", "0">>), PyStr(<<"y">>)}

UnitInputs ==
    {PyNone, PyInt(1), PyStr(<<>>), PyStr(<<" ">>), PyStr(Y), PyStr(D), PyStr(YD),
     PyStr(<<" ", "y">>)}

\* values of the right operand of a comparison
EqValueInputs ==
    {PyInt(1), PyFloat(F(1, 0)), PyStr(<<"1">>), PyStr(<<"1", ".", "0">>),
     PyInt(1234567), PyStr(<<"y">>)}

NextMeasurement ==
    \/ \E v \in ValueInputs, u \in UnitInputs : NewMeasurement(v, u)
    \/ \E m \in 1..MaxMeas : to_string(m)
    \/ \E m \in 1..MaxMeas, other \in {PyMeas(o) : o \in CallerMeas}
                                  \cup NonMeasurementInputs : Eq(m, other)
    \/ \E m \in 1..MaxMeas, v \in EqValueInputs, u \in {PyStr(Y), PyStr(D)} :
            EqNew(m, v, u)

SpecMeasurement == Init /\ [][NextMeasurement]_vars

(***************************************************************************)
(* SpecFactory: PropertyFactory.create is given elements and the           *)
(* properties it returns generate their elements.                          *)
(***************************************************************************)
A == <<"a">>

C == <<"c">>

T == <<"t">>

Dummy == <<"d", "u", "m", "m", "y">>

\* a unit property element: attributes, and the texts of its two children
UnitElement(attrib, valueText, unitText) ==
    Element(UNIT_PROPERTY_TAG, attrib, <<>>,
            <<Element(VALUE_TAG, <<>>, valueText, <<>>),
              Element(UNIT_TAG, <<>>, unitText, <<>>)>>)

NameAndCategory == <<<<NAME_ATTRIBUTE, A>>, <<CATEGORY_ATTRIBUTE, C>>>>

AllCommon ==
    NameAndCategory \o <<<<TOOLTIP_ATTRIBUTE, T>>, <<REQUIRED_ATTRIBUTE, TrueText>>,
                         <<INMUTABLE_ATTRIBUTE, TrueText>>>>

CommonAttribInputs ==
    {NameAndCategory,
     AllCommon,
     NameAndCategory \o <<<<INMUTABLE_ATTRIBUTE, TrueText>>>>,
     NameAndCategory \o <<<<REQUIRED_ATTRIBUTE, Dummy>>>>,
     NameAndCategory \o <<<<TOOLTIP_ATTRIBUTE, <<>>>>>>,
     <<<<CATEGORY_ATTRIBUTE, C>>, <<NAME_ATTRIBUTE, A>>>>,
     <<<<NAME_ATTRIBUTE, <<>>>>, <<CATEGORY_ATTRIBUTE, <<>>>>>>,
     <<>>}

UnitsAttribInputs ==
    {<<>>,
     <<<<UNITS_ATTRIBUTE, <<"y">>>>>>,
     <<<<UNITS_ATTRIBUTE, <<"d", " ", "y">>>>>>,
     <<<<UNITS_ATTRIBUTE, <<"y", " ", " ", "d">>>>>>,
     <<<<UNITS_ATTRIBUTE, <<>>>>>>}

YDUnits == <<<<UNITS_ATTRIBUTE, YD>>>>

ValueTextInputs ==
    {<<"1", ".", "5">>, <<"1", "e", "-", "0", "5">>,
     <<"1", "2", "3", "4", "5", "6", "7", ".", "0">>, <<"n", "a", "n">>,
     <<"-", "1", ".", "0">>, <<"0", ".", "0">>,
     <<"1">>, <<"1", ".", "5", "0">>, <<"y">>, <<>>}

UnitTextInputs == {D, S, YD, <<>>}

\* the element of name a, category c, units "y d", value 1.0 and unit y,
\* and the elements that differ from it in one part
ElementInputs ==
    {UnitElement(c \o YDUnits, <<"1", ".", "0">>, Y) : c \in CommonAttribInputs}
    \cup {UnitElement(NameAndCategory \o u, <<"1", ".", "0">>, Y) : u \in UnitsAttribInputs}
    \cup {UnitElement(AllCommon \o YDUnits, v, Y) : v \in ValueTextInputs}
    \cup {UnitElement(NameAndCategory \o YDUnits, <<"1", ".", "0">>, u) :
              u \in UnitTextInputs}

\* elements that are no property's
UnknownInputs ==
    {Element(t, NameAndCategory, <<>>, <<>>) : t \in {"WrongProperty", "wrong_property"}}
    \cup {Element(VALUE_TAG, <<>>, <<"1", ".", "0">>, <<>>),
          Element("unitproperty", NameAndCategory \o YDUnits, <<>>,
                  <<Element(VALUE_TAG, <<>>, <<"1", ".", "0">>, <<>>),
                    Element(UNIT_TAG, <<>>, Y, <<>>)>>)}

NextFactory ==
    \/ \E x \in ElementInputs \cup UnknownInputs : Create(x)
    \/ \E x \in ElementInputs \cup UnknownInputs : CreateUnknown(x)
    \/ \E p \in 1..MaxProps : GenerateXmlOf(p)

SpecFactory == Init /\ [][NextFactory]_vars

(***************************************************************************)
(* SpecCompare: unit properties with different common attributes, units    *)
(* and values are constructed and compared with each other and with        *)
(* objects that are no unit properties.                                    *)
(***************************************************************************)
DY == <<"d", " ", "y">>

NaNText == <<"n", "a", "n">>

AllArgs == Args(PyStr(A), PyStr(C), PyStr(T), PyBool(TRUE), PyBool(TRUE))

\* the common attributes and units of the properties compared: two differ
\* in the attributes alone, two in the order of the units alone
CompareInputs == {<<NoArgs, PyStr(YD)>>, <<AllArgs, PyStr(YD)>>, <<NoArgs, PyStr(DY)>>}

\* the Measurements they are constructed with: 1.0 y and nan y
CompareValueInputs == {PyFloat(F(1, 0)), PyStr(NaNText)}

\* objects that are no properties, and a property of another kind
OtherInputs ==
    {PyStr(Dummy), PyInt(1), PyFloat(F(1, 0)), PyBool(TRUE), PyBool(FALSE), PyListOf(0),
     Py("dict", 0, Zero, <<>>), PyTuple, Py("set", 0, Zero, <<>>),
     Py("StringProperty", 0, Zero, <<>>)}

NextCompare ==
    \/ \E v \in CompareValueInputs : NewMeasurement(v, PyStr(Y))
    \/ \E ci \in CompareInputs, value \in {PyNone} \cup {PyMeas(m) : m \in CallerMeas} :
            ConstructWith(ci[1], ci[2], value)
    \/ \E p \in 1..MaxProps, q \in 1..MaxProps : Compare(p, PyProp(q))
    \/ \E p \in 1..MaxProps, other \in OtherInputs : Compare(p, other)

SpecCompare == Init /\ [][NextCompare]_vars

(***************************************************************************)
(* SpecClone: unit properties are constructed and cloned, with and without *)
(* a new value, and each clone is compared with the property it was made   *)
(* of.                                                                     *)
(***************************************************************************)
\* the Measurements the caller builds: 1.0 y, nan y and 1.0 s
CloneValueInputs ==
    {<<PyFloat(F(1, 0)), PyStr(Y)>>, <<PyStr(NaNText), PyStr(Y)>>,
     <<PyFloat(F(1, 0)), PyStr(S)>>}

NextClone ==
    \/ \E mi \in CloneValueInputs : NewMeasurement(mi[1], mi[2])
    \/ \E args \in {NoArgs, AllArgs}, units \in {PyStr(YD), PyStr(D)},
          value \in {PyNone} \cup {PyMeas(m) : m \in CallerMeas} :
            ConstructWith(args, units, value)
    \/ \E p \in 1..Len(props),
          v \in {PyNone, PyStr(<<"1", ".", "0">>)} \cup {PyMeas(m) : m \in CallerMeas} :
            Clone(p, v)
    \/ \E c \in 1..Len(props) : given[c].of # 0 /\ Compare(given[c].of, PyProp(c))

SpecClone == Init /\ [][NextClone]_vars

(***************************************************************************)
(* SpecDefaults: unit properties of the units y and d are constructed, by  *)
(* the constructor and by PropertyFactory.create, with common attributes   *)
(* that are missing, blank or of the wrong type, and compared.             *)
(***************************************************************************)
\* constructor arguments: none, all, and all but one that is blank, None,
\* False or a string where a boolean belongs
DefaultsArgsInputs ==
    {NoArgs,
     AllArgs,
     Args(PyStr(<<>>), PyStr(<<>>), PyNone, PyNone, PyNone),
     Args(PyStr(<<>>), PyStr(C), PyStr(T), PyBool(TRUE), PyBool(TRUE)),
     Args(PyStr(A), PyStr(C), PyStr(<<>>), PyBool(FALSE), PyBool(FALSE)),
     Args(PyStr(A), PyStr(C), PyNone, PyBool(TRUE), PyBool(TRUE)),
     Args(PyStr(A), PyStr(C), PyStr(T), PyStr(Dummy), PyBool(TRUE)),
     Args(PyStr(A), PyStr(C), PyStr(T), PyBool(TRUE), PyStr(Dummy))}

\* elements of the value 0.0 y with the common attributes of SpecFactory,
\* and one with inmutable="dummy"
DefaultsElementInputs ==
    {UnitElement(c \o YDUnits, <<"0", ".", "0">>, Y) :
        c \in CommonAttribInputs
              \cup {NameAndCategory \o <<<<INMUTABLE_ATTRIBUTE, Dummy>>>>}}

NextDefaults ==
    \/ \E args \in DefaultsArgsInputs : ConstructWith(args, PyStr(YD), PyNone)
    \/ \E x \in DefaultsElementInputs : Create(x)
    \/ \E p \in 1..MaxProps, q \in 1..MaxProps : Compare(p, PyProp(q))

SpecDefaults == Init /\ [][NextDefaults]_vars

(***************************************************************************)
(* SpecTrace: trace properties are constructed, by the constructor and by  *)
(* PropertyFactory.create, from targets some of which are empty, with      *)
(* limits below and above their number and with fields of the wrong type.  *)
(***************************************************************************)
X == <<"x">>

AC == <<"a", " ", "c">>

Test == <<"t", "e", "s", "t">>

\* the sequences of elements of elems of a length up to n
SeqsUpTo(elems, n) == UNION {[1..k -> elems] : k \in 0..n}

\* lists of up to MaxLen + 1 targets, the empty string among them
TargetsInputs == {TList(l) : l \in SeqsUpTo({<<>>, A, C}, MaxLen + 1)}

MaxInputs == {TNone, TInt(-50), TInt(0), TInt(1), TInt(2), TInt(10), TStr(Test)}

AcceptedInputs == {TList(<<A, C>>), TList(<<>>), TStr(Test), TStr(AC), TNone}

ExcludedInputs == {TList(<<A>>), TList(<<>>), TStr(Test), TNone}

TraceTypeInputs == {TStr(X), TStr(<<>>), TNone}

\* the arguments of the constructor: all targets with all limits, the
\* fields valid; and all of the other fields with three targets arguments,
\* one of them the empty string
TraceArgsInputs ==
    {TraceArgs(t, TList(<<A, C>>), TList(<<>>), TStr(X), m) :
        t \in TargetsInputs, m \in MaxInputs}
    \cup {TraceArgs(t, a, e, tt, TInt(NO_TARGETS_LIMIT)) :
            t \in {TList(<<>>), TList(<<A, C>>), TStr(<<>>)},
            a \in AcceptedInputs, e \in ExcludedInputs, tt \in TraceTypeInputs}

\* a trace child of the target t, and one without the target attribute
TraceChild(t) ==
    Element(TRACE_TAG, <<<<TARGET_ATTRIBUTE, t>>, <<TRACE_TYPE_ATTRIBUTE, X>>>>, <<>>, <<>>)

NoTargetChild == Element(TRACE_TAG, <<>>, <<>>, <<>>)

ChildrenInputs ==
    SeqsUpTo({TraceChild(A), TraceChild(C), TraceChild(<<>>), NoTargetChild}, MaxLen + 1)

\* the attributes of the trace kind: each is absent or has one of its texts
OptionalAttrib(key, texts) == {<<>>} \cup {<<<<key, s>>>> : s \in texts}

TraceAttribInputs ==
    {NameAndCategory \o a \o e \o tt \o m :
        a \in OptionalAttrib(ACCEPTED_TARGETS_ATTRIBUTE, {A, AC}),
        e \in OptionalAttrib(EXCLUDED_TARGETS_ATTRIBUTE, {A, <<"a", " ", " ", "c">>}),
        tt \in OptionalAttrib(TRACE_TYPE_ATTRIBUTE, {X}),
        m \in OptionalAttrib(MAX_TARGETS_NUMBER_ATTRIBUTE, {<<"5">>, <<"2">>, Test})}

\* the elements: all children without attributes of the trace kind and
\* with a limit, and all attributes with three children
TraceElementInputs ==
    {Element(TRACE_PROPERTY_TAG, NameAndCategory \o m, <<>>, c) :
        c \in ChildrenInputs,
        m \in OptionalAttrib(MAX_TARGETS_NUMBER_ATTRIBUTE, {<<"2">>})}
    \cup {Element(TRACE_PROPERTY_TAG, a, <<>>,
                  <<TraceChild(A), TraceChild(C), TraceChild(<<>>)>>) :
            a \in TraceAttribInputs}

NextTrace ==
    \/ \E args \in TraceArgsInputs : ConstructTrace(args)
    \/ \E x \in TraceElementInputs : CreateTrace(x)

SpecTrace == Init /\ [][NextTrace]_vars

(***************************************************************************)
(* SpecTraceXml: PropertyFactory.create is given trace property elements   *)
(* and the trace properties it returns, and trace properties constructed   *)
(* with a limit, generate their elements.                                  *)
(***************************************************************************)
\* a trace child of the target t and the type tt
TypedChild(t, tt) ==
    Element(TRACE_TAG, <<<<TARGET_ATTRIBUTE, t>>, <<TRACE_TYPE_ATTRIBUTE, tt>>>>, <<>>, <<>>)

\* a trace property element as generate_xml writes it: the common
\* attributes, the accepted classes, the excluded ones, the type Test, the
\* limit, and a child of the type for each target
TraceElement(common, accepted, excluded, max, targets) ==
    Element(TRACE_PROPERTY_TAG,
            common \o accepted \o excluded \o <<<<TRACE_TYPE_ATTRIBUTE, Test>>>> \o max,
            <<>>, [i \in 1..Len(targets) |-> TypedChild(targets[i], Test)])

AcceptedAC == <<<<ACCEPTED_TARGETS_ATTRIBUTE, AC>>>>

\* the targets a, c, a, ...: none of them up to n of them
TargetsUpTo(n) == {[i \in 1..k |-> IF i % 2 = 1 THEN A ELSE C] : k \in 0..n}

\* up to MaxLen + 1 targets; no excluded class, one, two; no limit and
\* limits of MaxLen + 1 and 10, never exceeded; the common attributes of
\* the factory's inputs; accepted classes
WrittenTraceInputs ==
    {TraceElement(AllCommon, AcceptedAC, e, m, t) :
        e \in OptionalAttrib(EXCLUDED_TARGETS_ATTRIBUTE, {A, AC}),
        m \in OptionalAttrib(MAX_TARGETS_NUMBER_ATTRIBUTE,
                             {DigitsOf(MaxLen + 1), <<"1", "0">>}),
        t \in TargetsUpTo(MaxLen + 1)}
    \cup {TraceElement(c, AcceptedAC, <<>>, <<>>, <<A, C>>) : c \in CommonAttribInputs}
    \cup {TraceElement(NameAndCategory, a, <<>>, <<>>, <<A, C>>) :
            a \in OptionalAttrib(ACCEPTED_TARGETS_ATTRIBUTE, {A, <<"*", " ", "a">>})}

\* elements generate_xml never writes: the accepted classes any class or
\* doubly spaced, an excluded attribute without a class, a limit that is
\* exceeded, zero, negative, signed or no number, a child without a target
\* or of another type, no type at all, a text
OtherTraceInputs ==
    {TraceElement(AllCommon, a, <<>>, <<>>, <<A, C>>) :
        a \in OptionalAttrib(ACCEPTED_TARGETS_ATTRIBUTE,
                             {PROTEUS_ANY, <<"a", " ", " ", "c">>, <<>>}) \ {<<>>}}
    \cup {TraceElement(AllCommon, AcceptedAC, <<<<EXCLUDED_TARGETS_ATTRIBUTE, <<>>>>>>,
                       <<>>, <<A, C>>)}
    \cup {TraceElement(AllCommon, AcceptedAC, <<>>, m, <<A, C>>) :
            m \in OptionalAttrib(MAX_TARGETS_NUMBER_ATTRIBUTE,
                                 {<<"1">>, <<"0">>, <<"-", "1">>, <<"+", "2">>,
                                  <<"0", "2">>, Test}) \ {<<>>}}
    \cup {Element(TRACE_PROPERTY_TAG, AllCommon \o AcceptedAC \o tt, <<>>,
                  <<TypedChild(A, Test)>>) :
            tt \in OptionalAttrib(TRACE_TYPE_ATTRIBUTE, {<<>>})}
    \cup {Element(TRACE_PROPERTY_TAG,
                  AllCommon \o AcceptedAC \o <<<<TRACE_TYPE_ATTRIBUTE, Test>>>>, <<>>, c) :
            c \in {<<TypedChild(A, Test), TypedChild(<<>>, Test)>>,
                   <<TypedChild(A, X)>>,
                   <<TypedChild(A, Test), NoTargetChild>>}}
    \cup {Element(TRACE_PROPERTY_TAG,
                  AllCommon \o AcceptedAC \o <<<<TRACE_TYPE_ATTRIBUTE, Test>>>>, X,
                  <<TypedChild(A, Test)>>)}

\* the arguments of the constructor with limits below and above the
\* number of targets
LimitArgsInputs ==
    {TraceArgs(TList(<<A, C>>), a, e, TStr(X), m) :
        a \in {TList(<<A, C>>), TNone}, e \in {TList(<<A>>), TNone},
        m \in {TInt(1), TInt(12), TInt(0)}}

NextTraceXml ==
    \/ \E args \in LimitArgsInputs : ConstructTrace(args)
    \/ \E x \in WrittenTraceInputs \cup OtherTraceInputs : CreateTrace(x)
    \/ GenerateXmlOfTrace

SpecTraceXml == Init /\ [][NextTraceXml]_vars

(***************************************************************************)
(* SpecVerification: verifications are stored for the objects of a         *)
(* project, whose properties the user edits and which is saved.            *)
(***************************************************************************)
OutInputs == {<<>>, A}

KeyInputs == {NameKey, VERIFICATION_PROPERTY_OUTPUT_NAME}

NextVerification ==
    \/ OpenProject
    \/ \E id \in ObjectIds, out \in OutInputs : store_verification(id, out)
    \/ \E id \in ObjectIds, key \in KeyInputs : UpdateProperty(id, key, A)
    \/ SaveProject

SpecVerification == Init /\ [][NextVerification]_vars

(***************************************************************************)
(* SpecPrune: remove_empty_directories is called for the paths of trees of *)
(* files and directories, and runs to its end.                             *)
(***************************************************************************)
MaxDepth == 3       \* names in the longest path of a tree

\* the paths of up to d names, b a name of last entries only
RECURSIVE TreePaths(_)
TreePaths(d) ==
    IF d = 0 THEN {<<>>}
    ELSE TreePaths(d - 1)
         \cup {Append(p, n) : p \in {q \in TreePaths(d - 1) :
                                        \A i \in 1..Len(q) : q[i] # "b"},
                              n \in {"a", "b"}}

\* everything but the root is in a directory
WellFormed(f) ==
    \A p \in DOMAIN f : p # <<>> => IsDir(f, SubSeq(p, 1, Len(p) - 1))

\* the trees of files and directories on the paths
TreeInputs ==
    {f \in UNION {[ps -> {"file", "dir"}] : ps \in SUBSET TreePaths(MaxDepth)} :
        WellFormed(f)}

NextPrune ==
    \/ \E tree \in TreeInputs : Populate(tree)
    \/ \E path \in TreePaths(MaxDepth), order \in {"up", "down"} :
          remove_empty_directories(path, order)
    \/ VisitNext
    \/ RemoveAndReturn

\* a call that runs takes its next step
PruneFairness == WF_vars(VisitNext) /\ WF_vars(RemoveAndReturn)

SpecPrune == Init /\ [][NextPrune]_vars /\ PruneFairness

(***************************************************************************)
(* SpecExport: the user fills in the form of the LaTeX export and exports, *)
(* while files and directories come to be on the disk.                     *)
(***************************************************************************)
\* the disks: the plain one; the folder o in d there already, as a
\* directory with a file and as a file; d missing, and a file; the project
\* without assets; the template with a directory main.tex
ValidateDiskInputs ==
    {HomeDisk,
     Disk(Plain \cup Assets \cup Template
          \cup {<<<<"d", "o">>, "dir">>, <<<<"d", "o", "k">>, "file">>}),
     Disk(Plain \cup Assets \cup Template \cup {<<<<"d", "o">>, "file">>}),
     Disk((Plain \ {<<<<"d">>, "dir">>}) \cup Assets \cup Template),
     Disk((Plain \ {<<<<"d">>, "dir">>}) \cup {<<<<"d">>, "file">>} \cup Assets
          \cup Template)}

DiskInputs ==
    ValidateDiskInputs
    \cup {Disk(Plain \cup Template),
          Disk(Plain \cup Assets \cup Template \cup {<<<<"t", "main.tex">>, "dir">>})}

PathInputs == {PathText(TRUE, <<>>), PathText(FALSE, <<"d">>)}

FolderInputs == {FolderName("o", TRUE), FolderName("", TRUE), FolderName("o?", FALSE)}

\* the HTML of the view: without a latex block, and with one that names
\* the asset a, or none
Html(latex, uses) == [latex |-> latex, uses |-> uses]

HtmlInputs == {Html(FALSE, {}), Html(TRUE, {"a"}), Html(TRUE, {})}

FaultInputs == {"mkdir", "touch", "assets", "template", "unlink", "write"}

PdfInputs ==
    {PdfRuns("CalledProcessError", 1), PdfRuns("CalledProcessError", 2),
     PdfRuns("FileNotFoundError", 1), PdfRuns("UnicodeDecodeError", 1)}

\* the form over the disks: the two inputs are edited
NextValidate ==
    \/ \E disk \in ValidateDiskInputs : Populate(disk)
    \/ \E path \in PathInputs : EditPath(path)
    \/ \E folder \in FolderInputs : EditFolderName(folder)

SpecValidate == Init /\ [][NextValidate]_vars

\* all that export may meet, one of them at a time beside a call without
\* any failure
NextExport ==
    \/ \E disk \in DiskInputs : Populate(disk)
    \/ \E path \in PathInputs : EditPath(path)
    \/ \E folder \in FolderInputs \ {FolderName("o?", FALSE)} : EditFolderName(folder)
    \/ \E checked \in BOOLEAN : SetPdfGeneration(checked)
    \/ \E html \in HtmlInputs : export(html, "", "up", PdfRuns("ok", 0))
    \/ export(Html(TRUE, {"a"}), "", "down", PdfRuns("ok", 0))
    \/ \E fault \in FaultInputs : export(Html(TRUE, {"a"}), fault, "up", PdfRuns("ok", 0))
    \/ \E pdf \in PdfInputs : export(Html(TRUE, {"a"}), "", "up", pdf)

SpecExport == Init /\ [][NextExport]_vars

(***************************************************************************)
(* SpecForm: unit properties are shown in their input, the user edits the  *)
(* value and selects units, and the input is validated and read.           *)
(***************************************************************************)
\* the units of a property; its values, one of them an integer of seven
\* digits; and what the translator has for the units: nothing, another
\* word for y, or two words for d
FormUnitsInputs == {<<Y>>, <<Y, D>>}

FormValueInputs == {F(1, 0), F(5, -1), F(1234567, 0)}

TranslationInputs ==
    {[u \in {} |-> <<>>], [u \in {Y} |-> <<"y", "r">>], [u \in {D} |-> <<"d", " ", "s">>]}

\* the texts the user types: none, a letter, a number, a number after a space
TypedTextInputs == {<<>>, <<"x">>, <<"2">>, <<" ", "2">>}

NextForm ==
    \/ \E units \in FormUnitsInputs, value \in FormValueInputs, required \in BOOLEAN,
          tr \in TranslationInputs :
          \E i \in 1..Len(units) : create_input(units, value, units[i], required, tr)
    \/ \E unit \in {Y, D, S} : setMeasurement(F(25, -1), unit)
    \/ \E i \in 1..2 : SelectUnit(i)
    \/ \E chars \in TypedTextInputs : EditValue(chars)
    \/ get_value
    \/ validate

SpecForm == Init /\ [][NextForm]_vars


-----------------------------------------------------------------------------
(***************************************************************************)
(* What the properties are stated with: the inputs read directly, not      *)
(* through the operators that model the code.                              *)
(***************************************************************************)
\* a string that is one token: not empty and without whitespace
ValidToken(s) == s # <<>> /\ \A i \in 1..Len(s) : s[i] # " "

\* a string without any token
Blank(s) == \A i \in 1..Len(s) : s[i] = " "

\* a string with two tokens or more: whitespace between two other characters
ManyTokens(s) ==
    \E i, j, k \in 1..Len(s) : i < j /\ j < k /\ s[i] # " " /\ s[j] = " " /\ s[k] # " "

\* the strings among the inputs that are numerals, and the number each is
NumeralValue(s) ==
    CASE s = <<"1">> -> F(1, 0)
      [] s = <<"1", ".", "0">> -> F(1, 0)
      [] s = <<"-", "1", ".", "0">> -> F(-1, 0)
      [] OTHER -> Zero

IsNumeral(s) == s \in {<<"1">>, <<"1", ".", "0">>, <<"-", "1", ".", "0">>}

\* the float of the same number as an int of the inputs
IntValue(n) ==
    CASE n = 1 -> F(1, 0)
      [] n = -1 -> F(-1, 0)
      [] n = 1000000 -> F(1, 6)
      [] n = 1234567 -> F(1234567, 0)
      [] OTHER -> Zero

IsNumeric(v) == v.t \in {"int", "float"} \/ (v.t = "str" /\ IsNumeral(v.s))

\* the float a numeric value stands for
NumberOf(v) ==
    IF v.t = "int" THEN IntValue(v.i)
    ELSE IF v.t = "float" THEN v.f
    ELSE NumeralValue(v.s)

\* the tokens of the strings given as units
TokensOf(s) ==
    CASE s = <<"d">> -> <<D>>
      [] s = <<"y", " ", " ", "d">> -> <<Y, D>>
      [] OTHER -> <<>>

\* the last call constructed a Measurement / a UnitProperty
MeasurementCalled == call.op = "Measurement"

PropertyCalled == call.op \in {"UnitProperty", "clone"}

\* the units the last constructor call was given, normalised
ArgUnits ==
    IF call.a.t = "list" THEN lists[call.a.i].items
    ELSE IF call.a.t = "str" THEN TokensOf(call.a.s)
    ELSE <<>>

-----------------------------------------------------------------------------
(***************************************************************************)
(* C1: every UnitProperty that construction returns (a direct call with    *)
(* any units and value, or clone with or without a new value) holds a      *)
(* Measurement as its value, and the unit of that Measurement is one of    *)
(* its units when construction returns.                                    *)
(***************************************************************************)
C1_ValueUnitInUnits ==
    \A p \in 1..Len(props) :
        /\ props[p].value \in LiveMeas
        /\ atReturn[p].unit \in Range(atReturn[p].units)

\* a clone was given a Measurement whose unit was none of the units
C1_Witness ==
    /\ call.op = "clone"
    /\ call.err = ""
    /\ call.b.t = "Measurement"
    /\ before.unit \notin Range(atReturn[call.ret].units)

(***************************************************************************)
(* C2: once a UnitProperty exists, its units, its value's magnitude and    *)
(* its value's unit stay what they were when its construction returned,    *)
(* whatever the caller does afterwards with the list and the Measurement   *)
(* it passed, and whatever other properties are constructed from them.     *)
(***************************************************************************)
C2_AttributesNeverChange ==
    \A p \in 1..Len(props) : View(props[p], lists, meas) = atReturn[p]

(***************************************************************************)
(* C3: constructing a UnitProperty leaves the Measurement passed as value  *)
(* with the value and unit it had before the call.                         *)
(***************************************************************************)
C3_ArgumentUntouched ==
    (PropertyCalled /\ call.b.t = "Measurement") => Fields(meas[call.b.i]) = before

(***************************************************************************)
(* C4: a UnitProperty constructed with a Measurement whose unit is not in  *)
(* the non-empty units list raises nothing and holds the given magnitude   *)
(* with the unit units[0]; when the unit is in units, a property that is   *)
(* returned holds the given magnitude and unit.                            *)
(***************************************************************************)
C4_Outcome ==
    IF before.unit \notin Range(ArgUnits)
    THEN /\ call.err = ""
         /\ atReturn[call.ret].value = before.value
         /\ atReturn[call.ret].unit = ArgUnits[1]
    ELSE call.err = "" =>
            /\ atReturn[call.ret].value = before.value
            /\ atReturn[call.ret].unit = before.unit

C4_RepairNeverFails ==
    (PropertyCalled /\ call.b.t = "Measurement" /\ ArgUnits # <<>>) => C4_Outcome

\* C4 as amended: the same, for units whose first element is a single token
C4_RepairWithValidFirstUnit ==
    (PropertyCalled /\ call.b.t = "Measurement" /\ ArgUnits # <<>>
        /\ ValidToken(ArgUnits[1])) => C4_Outcome

\* a Measurement in seconds was given with the units days and years
C4_Witness ==
    /\ call.op = "UnitProperty"
    /\ call.b.t = "Measurement"
    /\ call.err = ""
    /\ ArgUnits = <<D, Y>>
    /\ before.unit = S
    /\ atReturn[call.ret].unit = D

(***************************************************************************)
(* C5: a UnitProperty constructed with a value that is no Measurement      *)
(* (None, a string, a number) raises nothing and its value equals          *)
(* Measurement(0, units[0]).                                               *)
(***************************************************************************)
C5_Outcome ==
    /\ call.err = ""
    /\ atReturn[call.ret].value = Zero
    /\ atReturn[call.ret].unit = ArgUnits[1]

C5_DefaultNeverFails ==
    (PropertyCalled /\ call.b.t # "Measurement" /\ ArgUnits # <<>>) => C5_Outcome

\* C5 as amended: the same, for units whose first element is a single token
C5_DefaultWithValidFirstUnit ==
    (PropertyCalled /\ call.b.t # "Measurement" /\ ArgUnits # <<>>
        /\ ValidToken(ArgUnits[1])) => C5_Outcome

\* the string "1.0" was given as value with the units days and years
C5_Witness ==
    /\ call.op = "UnitProperty"
    /\ call.b.t = "str"
    /\ call.err = ""
    /\ ArgUnits = <<D, Y>>
    /\ atReturn[call.ret] = [units |-> <<D, Y>>, value |-> Zero, unit |-> D]

(***************************************************************************)
(* C6: construction turns a str units into the list of its tokens and      *)
(* keeps a list units as the object given; it fails for units of any other *)
(* type and for units without any element (an empty or blank str, an empty *)
(* list); no property is returned with an empty units list.                *)
(***************************************************************************)
C6_UnitsNormalised ==
    /\ \A p \in 1..Len(props) : atReturn[p].units # <<>>
    /\ call.op = "UnitProperty" =>
        /\ call.a.t \notin {"str", "list"} => call.err # ""
        /\ ArgUnits = <<>> => call.err # ""
        /\ (call.a.t = "str" /\ ~Blank(call.a.s)) =>
              /\ call.err = ""
              /\ atReturn[call.ret].units = TokensOf(call.a.s)
        /\ (call.a.t = "list" /\ call.err = "") =>
              /\ props[call.ret].units = call.a.i
              /\ atReturn[call.ret].units = lists[call.a.i].items

\* a string with two tokens and more than one space was given as units
C6_Witness ==
    /\ call.op = "UnitProperty"
    /\ call.a = PyStr(<<"y", " ", " ", "d">>)
    /\ call.err = ""
    /\ atReturn[call.ret].units = <<Y, D>>

(***************************************************************************)
(* C7: Measurement construction fails when the value is None, a string     *)
(* that is no numeral, or neither a number nor a string, and when the unit *)
(* is None, no string, empty, blank or made of several tokens; it returns  *)
(* a Measurement for every number or numeral with a unit that is a single  *)
(* token.                                                                  *)
(***************************************************************************)
C7_MustFail(v, u) ==
    \/ v.t = "NoneType"
    \/ v.t = "str" /\ ~IsNumeral(v.s)
    \/ v.t \notin {"int", "float", "str"}
    \/ u.t # "str"
    \/ u.t = "str" /\ (Blank(u.s) \/ ManyTokens(u.s))

C7_MeasurementValidation ==
    MeasurementCalled =>
        /\ C7_MustFail(call.a, call.b) => (call.err # "" /\ call.ret = 0)
        /\ (IsNumeric(call.a) /\ call.b.t = "str" /\ ValidToken(call.b.s)) =>
              /\ call.err = ""
              /\ call.ret \in CallerMeas
              /\ meas[call.ret].unit = call.b.s

\* a number was given with a unit of two tokens
C7_Witness ==
    /\ MeasurementCalled
    /\ call.a = PyInt(1)
    /\ call.b = PyStr(YD)
    /\ call.err = ErrUnitWords

(***************************************************************************)
(* C8: Measurement construction checks the value before the unit and       *)
(* reports the first check that fails: with an invalid value the failure   *)
(* reported is the value's (None, no numeral, wrong type) whatever the     *)
(* unit is; with a valid value it is the first of: unit no string, unit    *)
(* blank, unit of several tokens.                                          *)
(***************************************************************************)
C8_FirstFailureReported ==
    MeasurementCalled =>
        /\ call.a.t = "NoneType" => call.err = ErrValueNone
        /\ (call.a.t = "str" /\ ~IsNumeral(call.a.s)) => call.err = ErrValueNumber
        /\ call.a.t \notin {"NoneType", "int", "float", "str"} => call.err = ErrValueType
        /\ IsNumeric(call.a) =>
              /\ call.b.t # "str" => call.err = ErrUnitType
              /\ (call.b.t = "str" /\ Blank(call.b.s)) => call.err = ErrUnitEmpty
              /\ (call.b.t = "str" /\ ManyTokens(call.b.s)) => call.err = ErrUnitWords

\* the value and the unit were both None
C8_Witness ==
    /\ MeasurementCalled
    /\ call.a = PyNone
    /\ call.b = PyNone
    /\ call.err = ErrValueNone

(***************************************************************************)
(* C9: a Measurement holds the float of the number it was given as an int  *)
(* or as a numeral; m == Measurement(v, u) is true exactly when m's value  *)
(* is the number v stands for and m's unit is u; m == other is true        *)
(* exactly when other is a Measurement of the same value and unit, and     *)
(* false, without an exception, when other is no Measurement.              *)
(***************************************************************************)
C9_CoercionAndEquality ==
    /\ (MeasurementCalled /\ call.err = "") => meas[call.ret].value = NumberOf(call.a)
    /\ (call.op = "eq_new" /\ IsNumeric(call.a)) =>
          /\ call.err = ""
          /\ eqv = (before.value = NumberOf(call.a) /\ before.unit = call.b.s)
    /\ (call.op = "eq" /\ call.b.t = "Measurement") =>
          eqv = (before = Fields(meas[call.b.i]))
    /\ (call.op = "eq" /\ call.b.t # "Measurement") => (call.err = "" /\ eqv = FALSE)

\* a Measurement of 1.0 was found equal to one built from the string "1"
C9_Witness ==
    /\ call.op = "eq_new"
    /\ call.a = PyStr(<<"1">>)
    /\ before.value = F(1, 0)
    /\ eqv

(***************************************************************************)
(* C10: to_string returns the value, one space and the unit, and the       *)
(* value part parses back to exactly the Measurement's value, for every    *)
(* value.                                                                  *)
(***************************************************************************)
C10_ToStringRoundTrip ==
    call.op = "to_string" =>
        /\ FirstPos(text, " ") > 1
        /\ ParseFloat(SubSeq(text, 1, FirstPos(text, " ") - 1)) =
              [ok |-> TRUE, f |-> before.value]
        /\ SubSeq(text, FirstPos(text, " ") + 1, Len(text)) = before.unit

(***************************************************************************)
(* C11: for a canonical unit property element x (the common attributes in  *)
(* their order, then a units attribute of tokens joined by single spaces;  *)
(* two children, the value with the str of a float as text, then the unit  *)
(* with one of the units as text) create returns a property, and the       *)
(* element that property generates is x: same tag, same attributes in the  *)
(* same order, no text and the same two children.                          *)
(***************************************************************************)
\* the place of a common attribute among the attributes
AttribRank(key) ==
    CASE key = NAME_ATTRIBUTE -> 1
      [] key = CATEGORY_ATTRIBUTE -> 2
      [] key = TOOLTIP_ATTRIBUTE -> 3
      [] key = REQUIRED_ATTRIBUTE -> 4
      [] key = INMUTABLE_ATTRIBUTE -> 5
      [] key = UNITS_ATTRIBUTE -> 6
      [] OTHER -> 0

\* tokens joined by single spaces, one token at least
SingleSpaced(s) ==
    /\ s # <<>>
    /\ s[1] # " "
    /\ s[Len(s)] # " "
    /\ \A i \in 1..(Len(s) - 1) : ~(s[i] = " " /\ s[i + 1] = " ")

\* the token u is one of the tokens of the single-spaced s
TokenIn(u, s) ==
    \E i \in 1..Len(s) :
        /\ i + Len(u) - 1 <= Len(s)
        /\ SubSeq(s, i, i + Len(u) - 1) = u
        /\ (i = 1 \/ s[i - 1] = " ")
        /\ (i + Len(u) - 1 = Len(s) \/ s[i + Len(u)] = " ")

\* what str gives for the floats 1.0, 1.5, 0.00001, 1234567.0, nan, -1.0, 0.0
CanonicalFloatTexts ==
    {<<"1", ".", "0">>, <<"1", ".", "5">>, <<"1", "e", "-", "0", "5">>,
     <<"1", "2", "3", "4", "5", "6", "7", ".", "0">>, <<"n", "a", "n">>,
     <<"-", "1", ".", "0">>, <<"0", ".", "0">>}

CanonicalAttrib(a) ==
    /\ Len(a) >= 3
    /\ a[1][1] = NAME_ATTRIBUTE /\ ValidToken(a[1][2])
    /\ a[2][1] = CATEGORY_ATTRIBUTE /\ ValidToken(a[2][2])
    /\ a[Len(a)][1] = UNITS_ATTRIBUTE /\ SingleSpaced(a[Len(a)][2])
    /\ \A i \in 1..(Len(a) - 1) :
          /\ AttribRank(a[i][1]) > 0
          /\ AttribRank(a[i][1]) < AttribRank(a[i + 1][1])
    /\ \A i \in 1..Len(a) :
          /\ a[i][1] = TOOLTIP_ATTRIBUTE => a[i][2] # <<>>
          /\ a[i][1] \in {REQUIRED_ATTRIBUTE, INMUTABLE_ATTRIBUTE} => a[i][2] = TrueText

Canonical(x) ==
    /\ x.tag = UNIT_PROPERTY_TAG
    /\ x.text = <<>>
    /\ CanonicalAttrib(x.attrib)
    /\ Len(x.children) = 2
    /\ x.children[1] \in {Element(VALUE_TAG, <<>>, v, <<>>) : v \in CanonicalFloatTexts}
    /\ x.children[2].tag = UNIT_TAG
    /\ x.children[2].attrib = <<>> /\ x.children[2].children = <<>>
    /\ ValidToken(x.children[2].text)
    /\ TokenIn(x.children[2].text, x.attrib[Len(x.attrib)][2])

C11_RoundTrip ==
    Canonical(xml.in) =>
        /\ call.op = "create" => (call.err = "" /\ xml.made = Len(props))
        /\ (xml.of # 0 /\ xml.of = xml.made) => xml.out = xml.in

\* the element with all five common attributes and the value 1234567.0
\* was generated again from the property made of it
C11_Witness ==
    /\ xml.in = UnitElement(AllCommon \o YDUnits,
                            <<"1", "2", "3", "4", "5", "6", "7", ".", "0">>, Y)
    /\ xml.of = xml.made
    /\ xml.of # 0
    /\ xml.out = xml.in

(***************************************************************************)
(* C12: p.compare(other) is true exactly when other is a unit property     *)
(* with the name, category, tooltip, required and inmutable of p, with the *)
(* same number of units, each equal to the unit of p at its place, and     *)
(* with a value of the magnitude and unit of p's value; it is false, and   *)
(* raises nothing, when other is no property or one of another kind.       *)
(***************************************************************************)
\* the units of the properties p and q are equal, place by place
SameUnits(p, q) ==
    /\ Len(lists[p.units].items) = Len(lists[q.units].items)
    /\ \A i \in 1..Len(lists[p.units].items) :
          i <= Len(lists[q.units].items) =>
              lists[p.units].items[i] = lists[q.units].items[i]

\* the values of p and q are equal as Measurements: floats are compared, so
\* that nan is no one's equal
SameValue(p, q) ==
    /\ meas[p.value].value = meas[q.value].value
    /\ meas[p.value].value # NaN
    /\ meas[p.value].unit = meas[q.value].unit

C12_Compare ==
    call.op = "compare" =>
        /\ call.err = ""
        /\ call.b.t # "UnitProperty" => eqv = FALSE
        /\ call.b.t = "UnitProperty" =>
              eqv = (/\ props[call.a.i].name = props[call.b.i].name
                     /\ props[call.a.i].category = props[call.b.i].category
                     /\ props[call.a.i].tooltip = props[call.b.i].tooltip
                     /\ props[call.a.i].required = props[call.b.i].required
                     /\ props[call.a.i].inmutable = props[call.b.i].inmutable
                     /\ SameUnits(props[call.a.i], props[call.b.i])
                     /\ SameValue(props[call.a.i], props[call.b.i]))

\* two properties of the same attributes and value, one with the units
\* y and d, the other with d and y, were found different
C12_Witness ==
    /\ call.op = "compare"
    /\ call.b.t = "UnitProperty"
    /\ SameCommon(props[call.a.i], props[call.b.i])
    /\ SameValue(props[call.a.i], props[call.b.i])
    /\ lists[props[call.a.i].units].items = <<Y, D>>
    /\ lists[props[call.b.i].units].items = <<D, Y>>
    /\ ~eqv

(***************************************************************************)
(* C13: p.clone() without a new value returns another instance than p,     *)
(* with the name, category, tooltip, required and inmutable of p, and      *)
(* p.compare(p.clone()) is true.                                           *)
(***************************************************************************)
\* the last call compared a property with the clone c made of it
ComparedWithClone(c) ==
    /\ call.op = "compare"
    /\ call.b = PyProp(c)
    /\ c \in 1..Len(props)
    /\ call.a = PyProp(given[c].of)

C13_CloneComparesEqual ==
    /\ call.op = "clone" =>
          /\ call.err = ""
          /\ call.ret # given[call.ret].of
          /\ SameCommon(props[call.ret], props[given[call.ret].of])
    /\ \A c \in 1..Len(props) :
          (ComparedWithClone(c) /\ given[c].new_value = PyNone) => eqv

(***************************************************************************)
(* C14: clone(p, v) has a value equal to v, and when v != p.value held     *)
(* before the call, compare(p, clone(p, v)) is false.                      *)
(***************************************************************************)
\* v != p.value as it was before clone(p, v) made c
Differed(c) ==
    \/ given[c].new_value.t # "Measurement"
    \/ ~FloatEq(given[c].was.value, given[c].source.value)
    \/ given[c].was.unit # given[c].source.unit

\* the values of c and of the property it was made of are what they were
\* when clone returned
ValuesKept(c) ==
    /\ View(props[c], lists, meas) = atReturn[c]
    /\ Fields(meas[props[given[c].of].value]) = given[c].source

C14_CloneWithValue ==
    /\ (call.op = "clone" /\ given[call.ret].new_value # PyNone) =>
          MeasurementEq(meas[props[call.ret].value], Operand(given[call.ret].new_value))
    /\ \A c \in 1..Len(props) :
          (/\ ComparedWithClone(c)
           /\ given[c].new_value # PyNone
           /\ ValuesKept(c)
           /\ Differed(c)) => ~eqv

\* C14 as amended: for a Measurement v whose unit is one of the units of
\* p, clone(p, v) holds the magnitude and the unit of v, and when
\* v != p.value held before the call, compare(p, clone(p, v)) is false
ValidNewValue(c) ==
    /\ given[c].new_value.t = "Measurement"
    /\ given[c].was.unit \in Range(atReturn[c].units)

C14_CloneWithValidValue ==
    /\ (call.op = "clone" /\ ValidNewValue(call.ret)) =>
          /\ props[call.ret].value = given[call.ret].new_value.i
          /\ Fields(meas[props[call.ret].value]) = given[call.ret].was
    /\ \A c \in 1..Len(props) :
          (/\ ComparedWithClone(c)
           /\ ValidNewValue(c)
           /\ ValuesKept(c)
           /\ Differed(c)) => ~eqv

\* a property of the default value 0 y was cloned with the new value 1.0 y
\* and found different from its clone
C14_Witness ==
    \E c \in 1..Len(props) :
        /\ ComparedWithClone(c)
        /\ ValidNewValue(c)
        /\ ValuesKept(c)
        /\ given[c].was = [value |-> F(1, 0), unit |-> Y]
        /\ given[c].source = [value |-> Zero, unit |-> Y]
        /\ ~eqv

(***************************************************************************)
(* C15: the construction of a property never fails for its common          *)
(* attributes, whether by the constructor or by PropertyFactory.create: a  *)
(* name or category that is missing or blank becomes the default, a        *)
(* tooltip that is None or absent the empty string, a required or          *)
(* inmutable that is not the boolean True (for an element: not the text    *)
(* true) False; and two properties compare equal exactly when what they    *)
(* were given comes to the same attributes.                                *)
(***************************************************************************)
ExpectedText(v, dflt) ==
    IF v.t = "str" /\ (\E i \in 1..Len(v.s) : v.s[i] # " ") THEN v.s ELSE dflt

ExpectedCommon(a) ==
    [name      |-> ExpectedText(a.name, DEFAULT_NAME),
     category  |-> ExpectedText(a.category, DEFAULT_CATEGORY),
     tooltip   |-> IF a.tooltip.t = "str" THEN a.tooltip.s ELSE <<>>,
     required  |-> (a.required.t = "bool" /\ a.required.i = 1),
     inmutable |-> (a.inmutable.t = "bool" /\ a.inmutable.i = 1)]

\* the attribute key of the element x as a Python value, None when absent
AttribOf(x, key) ==
    IF \E i \in 1..Len(x.attrib) : x.attrib[i][1] = key
    THEN PyStr(x.attrib[CHOOSE i \in 1..Len(x.attrib) : x.attrib[i][1] = key][2])
    ELSE PyNone

ExpectedCommonOfElement(x) ==
    [name      |-> ExpectedText(AttribOf(x, "name"), DEFAULT_NAME),
     category  |-> ExpectedText(AttribOf(x, "category"), DEFAULT_CATEGORY),
     tooltip   |-> IF AttribOf(x, "tooltip").t = "str" THEN AttribOf(x, "tooltip").s
                   ELSE <<>>,
     required  |-> AttribOf(x, "required") = PyStr(<<"t", "r", "u", "e">>),
     inmutable |-> AttribOf(x, "inmutable") = PyStr(<<"t", "r", "u", "e">>)]

CommonOf(p) ==
    [name |-> p.name, category |-> p.category, tooltip |-> p.tooltip,
     required |-> p.required, inmutable |-> p.inmutable]

C15_CommonAttributes ==
    /\ call.op \in {"UnitProperty", "create"} =>
          /\ call.err = ""
          /\ call.ret = Len(props)
          /\ call.ret > 0
    /\ (call.op = "UnitProperty" /\ call.err = "") =>
          CommonOf(props[call.ret]) = ExpectedCommon(given[call.ret].args)
    /\ (call.op = "create" /\ call.err = "") =>
          CommonOf(props[call.ret]) = ExpectedCommonOfElement(xml.in)
    /\ (call.op = "compare" /\ call.b.t = "UnitProperty") =>
          eqv = (ExpectedCommon(given[call.a.i].args)
                    = ExpectedCommon(given[call.b.i].args))

\* a property constructed with a blank name and category and None for the
\* rest has the defaults and compares equal to the property create made of
\* an element without any of the five attributes
C15_Witness ==
    /\ call.op = "compare"
    /\ call.b.t = "UnitProperty"
    /\ given[call.a.i].args = Args(PyStr(<<>>), PyStr(<<>>), PyNone, PyNone, PyNone)
    /\ props[call.a.i].name = DEFAULT_NAME
    /\ props[call.a.i].category = DEFAULT_CATEGORY
    /\ props[call.a.i].tooltip = <<>>
    /\ ~props[call.a.i].required
    /\ ~props[call.a.i].inmutable
    /\ xml.made = call.b.i
    /\ xml.in.attrib = YDUnits
    /\ eqv

(***************************************************************************)
(* C16: PropertyFactory.create returns None and raises nothing for every   *)
(* element whose tag is none of the tags of the kinds of property.         *)
(***************************************************************************)
\* the tags of the kinds of property, written out
RegisteredTags == {"stringProperty", "unitProperty", "traceProperty"}

C16_UnknownTagGivesNone ==
    (call.op = "create" /\ xml.in.tag \notin RegisteredTags) =>
        /\ call.err = ""
        /\ call.ret = 0
        /\ xml.made = 0

\* create was given the element of the tag unitproperty, with all that a
\* unit property element has, and returned None
C16_Witness ==
    /\ call.op = "create"
    /\ xml.in.tag = "unitproperty"
    /\ Len(xml.in.children) = 2
    /\ call.err = ""
    /\ xml.made = 0

(***************************************************************************)
(* C17: for a unit property element create either returns a unit property  *)
(* or raises the failure of the construction of the Measurement or of the  *)
(* UnitProperty, and never returns None; for an element without a units    *)
(* attribute whose two children make a Measurement, the failure is that of *)
(* the UnitProperty constructor for an empty units list.                   *)
(***************************************************************************)
ConstructionFailures ==
    {ErrValueNone, ErrValueNumber, ErrValueType, ErrUnitType, ErrUnitEmpty,
     ErrUnitWords, ErrUnitsType, ErrUnitsEmpty}

\* the two children of the element x make a Measurement
MakesMeasurement(x) ==
    /\ Len(x.children) = 2
    /\ x.children[1].tag = "value" /\ x.children[1].text \in CanonicalFloatTexts
    /\ x.children[2].tag = "unit" /\ ValidToken(x.children[2].text)

NoUnitsAttribute(x) == \A i \in 1..Len(x.attrib) : x.attrib[i][1] # "units"

C17_RecognisedTag ==
    (call.op = "create" /\ xml.in.tag = "unitProperty") =>
        /\ \/ call.err = "" /\ call.ret = Len(props) /\ call.ret > 0 /\ xml.made = call.ret
           \/ call.err \in ConstructionFailures /\ call.ret = 0 /\ xml.made = 0
        /\ (NoUnitsAttribute(xml.in) /\ MakesMeasurement(xml.in)) =>
              call.err = "AssertionError: UnitProperty class units list is empty"

\* create was given an element with a name, a category and the two
\* children, and no units attribute, and raised the failure
C17_Witness ==
    /\ call.op = "create"
    /\ xml.in = UnitElement(NameAndCategory, <<"1", ".", "0">>, Y)
    /\ call.err = ErrUnitsEmpty
    /\ xml.made = 0

(***************************************************************************)
(* C18: the value of a constructed trace property is the list of targets   *)
(* it was given without the empty strings, cut to its first                *)
(* maxTargetsNumber elements when that is a limit: the order is kept, no   *)
(* empty string is left, nothing is raised for the targets beyond the      *)
(* limit, and the value is no longer than the limit.                       *)
(***************************************************************************)
RECURSIVE WithoutEmpty(_)
WithoutEmpty(l) ==
    IF l = <<>> THEN <<>>
    ELSE IF Head(l) = <<>> THEN WithoutEmpty(Tail(l))
    ELSE <<Head(l)>> \o WithoutEmpty(Tail(l))

\* v is the sequence l, or its first n elements when it has more
FirstOf(v, l, n) ==
    /\ Len(v) = (IF Len(l) > n THEN n ELSE Len(l))
    /\ \A i \in 1..Len(v) : i <= Len(l) /\ v[i] = l[i]

C18_ValueFilteredAndCut ==
    (call.op = "TraceProperty" /\ trace.args.targets.t = "list") =>
        /\ call.err = ""
        /\ trace.made
        /\ \A i \in 1..Len(trace.value) : trace.value[i] # <<>>
        /\ trace.maxTargetsNumber = -1 =>
              trace.value = WithoutEmpty(trace.args.targets.l)
        /\ trace.maxTargetsNumber # -1 =>
              /\ FirstOf(trace.value, WithoutEmpty(trace.args.targets.l),
                         trace.maxTargetsNumber)
              /\ Len(trace.value) <= trace.maxTargetsNumber

\* of the targets a, "" and c with the limit 1, a was kept
C18_Witness ==
    /\ call.op = "TraceProperty"
    /\ trace.args.targets = TList(<<A, <<>>, C>>)
    /\ trace.args.maxTargetsNumber = TInt(1)
    /\ trace.maxTargetsNumber = 1
    /\ trace.value = <<A>>

(***************************************************************************)
(* C19: the construction of a trace property raises nothing for fields of  *)
(* the wrong type and leaves maxTargetsNumber -1 or a positive integer (0, *)
(* a negative and what is no integer give -1), acceptedTargets a list that *)
(* is not empty (a string or an empty list give the one entry for any      *)
(* class), excludedTargets a list (a string gives the empty one) and       *)
(* traceType the default type when it was None or empty.                   *)
(***************************************************************************)
C19_MaxNormalised ==
    /\ trace.maxTargetsNumber = -1 \/ trace.maxTargetsNumber > 0
    /\ trace.maxTargetsNumber =
          (IF trace.args.maxTargetsNumber.t = "int" /\ trace.args.maxTargetsNumber.i > 0
           THEN trace.args.maxTargetsNumber.i ELSE -1)

C19_ClassesNormalised ==
    /\ trace.acceptedTargets # <<>>
    /\ (trace.args.acceptedTargets.t = "str" \/ trace.args.acceptedTargets.l = <<>>) =>
          trace.acceptedTargets = <<PROTEUS_ANY>>
    /\ (trace.args.acceptedTargets.t = "list" /\ trace.args.acceptedTargets.l # <<>>) =>
          trace.acceptedTargets = trace.args.acceptedTargets.l
    /\ trace.args.excludedTargets.t = "str" => trace.excludedTargets = <<>>
    /\ trace.args.excludedTargets.t = "list" =>
          trace.excludedTargets = trace.args.excludedTargets.l

C19_TypeNormalised ==
    /\ (trace.args.traceType.t = "NoneType" \/ trace.args.traceType.s = <<>>) =>
          trace.traceType = DEFAULT_TRACE_TYPE
    /\ (trace.args.traceType.t = "str" /\ trace.args.traceType.s # <<>>) =>
          trace.traceType = trace.args.traceType.s

C19_FieldsNormalised ==
    call.op = "TraceProperty" =>
        /\ call.err = ""
        /\ trace.made
        /\ C19_MaxNormalised
        /\ C19_ClassesNormalised
        /\ C19_TypeNormalised

\* a string for the classes accepted, a string for those excluded and no
\* type were given, and any class is accepted, none excluded and the type
\* is the default
C19_Witness ==
    /\ call.op = "TraceProperty"
    /\ trace.args.acceptedTargets = TStr(AC)
    /\ trace.args.excludedTargets = TStr(Test)
    /\ trace.args.traceType = TNone
    /\ trace.acceptedTargets = <<PROTEUS_ANY>>
    /\ trace.excludedTargets = <<>>
    /\ trace.traceType = DEFAULT_TRACE_TYPE
    /\ trace.maxTargetsNumber = -1

(***************************************************************************)
(* C20: for a trace property element create calls the constructor with the *)
(* targets of the trace children in their order, without the children that *)
(* have no target attribute; the classes of the acceptedTargets and        *)
(* excludedTargets attributes, split at whitespace, any class when the     *)
(* first is absent and none when the second is; the default type when      *)
(* traceType is absent; no limit when maxTargetsNumber is absent or no     *)
(* integer.                                                                *)
(***************************************************************************)
HasTarget(c) == \E i \in 1..Len(c.attrib) : c.attrib[i][1] = "target"

HasTargetNotEmpty(c) ==
    \E i \in 1..Len(c.attrib) : c.attrib[i][1] = "target" /\ c.attrib[i][2] # <<>>

\* the target attributes of the children cs
TargetsOf(cs) == [i \in 1..Len(cs) |-> AttribOf(cs[i], "target").s]

\* the places where a word of s begins, and the place where the word that
\* begins at i ends
WordStarts(s) == {i \in 1..Len(s) : s[i] # " " /\ (i = 1 \/ s[i - 1] = " ")}

WordEnd(s, i) ==
    CHOOSE j \in i..Len(s) :
        /\ \A k \in i..j : s[k] # " "
        /\ (j = Len(s) \/ s[j + 1] = " ")

NthStart(s, n) ==
    CHOOSE i \in WordStarts(s) : Cardinality({j \in WordStarts(s) : j < i}) = n - 1

\* the words of s, in their order
Words(s) ==
    [n \in 1..Cardinality(WordStarts(s)) |->
        SubSeq(s, NthStart(s, n), WordEnd(s, NthStart(s, n)))]

\* the words of the attribute key of x, dflt when it is absent
TokensOr(x, key, dflt) ==
    IF AttribOf(x, key).t = "NoneType" THEN dflt ELSE Words(AttribOf(x, key).s)

\* what the claim says of the fields other than the targets
C20_OtherArguments ==
    /\ trace.args.acceptedTargets =
          TList(TokensOr(trace.from, "acceptedTargets", <<PROTEUS_ANY>>))
    /\ trace.args.excludedTargets = TList(TokensOr(trace.from, "excludedTargets", <<>>))
    /\ AttribOf(trace.from, "traceType").t = "NoneType" =>
          trace.args.traceType = TStr(DEFAULT_TRACE_TYPE)
    /\ AttribOf(trace.from, "traceType").t = "str" =>
          trace.args.traceType = TStr(AttribOf(trace.from, "traceType").s)
    /\ (\/ AttribOf(trace.from, "maxTargetsNumber").t = "NoneType"
        \/ ~AllDigits(AttribOf(trace.from, "maxTargetsNumber").s)) =>
          trace.args.maxTargetsNumber = TInt(-1)
    /\ AttribOf(trace.from, "maxTargetsNumber") = PyStr(<<"5">>) =>
          trace.args.maxTargetsNumber = TInt(5)

C20_FactoryArguments ==
    (call.op = "create" /\ trace.from.tag = "traceProperty") =>
        /\ call.err = ""
        /\ trace.made
        /\ trace.args.targets = TList(TargetsOf(SelectSeq(trace.from.children, HasTarget)))
        /\ C20_OtherArguments

\* C20 as amended: the children without a target attribute and those whose
\* target attribute is empty are left out
C20_FactoryArgumentsNotEmpty ==
    (call.op = "create" /\ trace.from.tag = "traceProperty") =>
        /\ call.err = ""
        /\ trace.made
        /\ trace.args.targets =
              TList(TargetsOf(SelectSeq(trace.from.children, HasTargetNotEmpty)))
        /\ C20_OtherArguments

\* of the children of the targets a, "" and c, a and c were given to
\* the constructor, with any class accepted, none excluded, the default
\* type and the limit 2 of the attribute
C20_Witness ==
    /\ call.op = "create"
    /\ trace.from.tag = "traceProperty"
    /\ trace.from.children = <<TraceChild(A), TraceChild(<<>>), TraceChild(C)>>
    /\ AttribOf(trace.from, "maxTargetsNumber") = PyStr(<<"2">>)
    /\ trace.args = TraceArgs(TList(<<A, C>>), TList(<<PROTEUS_ANY>>), TList(<<>>),
                              TStr(DEFAULT_TRACE_TYPE), TInt(2))

(***************************************************************************)
(* C21: the element a trace property generates has the acceptedTargets     *)
(* attribute exactly when the accepted classes are not the single class    *)
(* any, the excludedTargets attribute exactly when a class is excluded,    *)
(* the traceType attribute always, the maxTargetsNumber attribute exactly  *)
(* when the limit is positive, and one child for each target of the value, *)
(* in their order, with the target and the type of the trace.  So for a    *)
(* trace property element x as generate_xml writes them (the common        *)
(* attributes, then those of the trace kind, in their order; classes       *)
(* joined by single spaces and not the single class any; a type; a limit,  *)
(* if any, that is a positive numeral and not below the number of          *)
(* children; no text; each child with a target that is not empty and the   *)
(* type of x) the property create makes of x generates x again.            *)
(***************************************************************************)
TraceAttribRank(key) ==
    CASE key = "name" -> 1
      [] key = "category" -> 2
      [] key = "tooltip" -> 3
      [] key = "required" -> 4
      [] key = "inmutable" -> 5
      [] key = "acceptedTargets" -> 6
      [] key = "excludedTargets" -> 7
      [] key = "traceType" -> 8
      [] key = "maxTargetsNumber" -> 9
      [] OTHER -> 0

\* the numeral of a positive integer: digits, the first of them no zero
PositiveNumeral(s) == s # <<>> /\ (\A i \in 1..Len(s) : IsDigit(s[i])) /\ s[1] # "0"

CanonicalTraceAttrib(a) ==
    /\ Len(a) >= 3
    /\ a[1][1] = "name" /\ ValidToken(a[1][2])
    /\ a[2][1] = "category" /\ ValidToken(a[2][2])
    /\ \A i \in 1..(Len(a) - 1) : TraceAttribRank(a[i][1]) < TraceAttribRank(a[i + 1][1])
    /\ \A i \in 1..Len(a) :
          /\ TraceAttribRank(a[i][1]) > 0
          /\ a[i][1] = "tooltip" => a[i][2] # <<>>
          /\ a[i][1] \in {"required", "inmutable"} => a[i][2] = <<"t", "r", "u", "e">>
          /\ a[i][1] = "acceptedTargets" => (SingleSpaced(a[i][2]) /\ a[i][2] # <<"*">>)
          /\ a[i][1] = "excludedTargets" => SingleSpaced(a[i][2])
          /\ a[i][1] = "traceType" => a[i][2] # <<>>
          /\ a[i][1] = "maxTargetsNumber" => PositiveNumeral(a[i][2])
    /\ \E i \in 1..Len(a) : a[i][1] = "traceType"

CanonicalTrace(x) ==
    /\ x.tag = "traceProperty"
    /\ x.text = <<>>
    /\ CanonicalTraceAttrib(x.attrib)
    /\ AttribOf(x, "maxTargetsNumber").t = "str" =>
          DigitsToInt(AttribOf(x, "maxTargetsNumber").s) >= Len(x.children)
    /\ \A i \in 1..Len(x.children) :
          /\ x.children[i].tag = "trace"
          /\ x.children[i].text = <<>> /\ x.children[i].children = <<>>
          /\ Len(x.children[i].attrib) = 2
          /\ x.children[i].attrib[1][1] = "target" /\ x.children[i].attrib[1][2] # <<>>
          /\ x.children[i].attrib[2] = <<"traceType", AttribOf(x, "traceType").s>>

\* the attributes of the trace kind and the children of the element out
\* are those of the trace property tr
C21_Emitted(tr, out) ==
    /\ AttribOf(out, "acceptedTargets").t = "str" <=> tr.acceptedTargets # <<<<"*">>>>
    /\ AttribOf(out, "acceptedTargets").t = "str" =>
          Words(AttribOf(out, "acceptedTargets").s) = tr.acceptedTargets
    /\ AttribOf(out, "excludedTargets").t = "str" <=> tr.excludedTargets # <<>>
    /\ AttribOf(out, "excludedTargets").t = "str" =>
          Words(AttribOf(out, "excludedTargets").s) = tr.excludedTargets
    /\ AttribOf(out, "traceType") = PyStr(tr.traceType)
    /\ AttribOf(out, "maxTargetsNumber").t = "str" <=> tr.maxTargetsNumber > 0
    /\ AttribOf(out, "maxTargetsNumber").t = "str" =>
          /\ PositiveNumeral(AttribOf(out, "maxTargetsNumber").s)
          /\ DigitsToInt(AttribOf(out, "maxTargetsNumber").s) = tr.maxTargetsNumber
    /\ Len(out.children) = Len(tr.value)
    /\ \A i \in 1..Len(tr.value) :
          /\ out.children[i].tag = "trace"
          /\ AttribOf(out.children[i], "target") = PyStr(tr.value[i])
          /\ AttribOf(out.children[i], "traceType") = PyStr(tr.traceType)

C21_TraceXml ==
    (call.op = "generate_xml" /\ trace.made) =>
        /\ C21_Emitted(trace, xml.out)
        /\ CanonicalTrace(trace.from) => xml.out = trace.from

\* the element with all common attributes, two accepted and two excluded
\* classes, the limit MaxLen + 1 and as many targets was generated again from
\* the property made of it
C21_Witness ==
    /\ call.op = "generate_xml"
    /\ trace.made
    /\ CanonicalTrace(trace.from)
    /\ Len(trace.from.children) = MaxLen + 1
    /\ AttribOf(trace.from, "excludedTargets") = PyStr(AC)
    /\ AttribOf(trace.from, "maxTargetsNumber") = PyStr(DigitsOf(MaxLen + 1))
    /\ xml.out = trace.from

(***************************************************************************)
(* C22: after store_verification(id, out) the properties of the object     *)
(* are those it had before with exactly the three keys                     *)
(* ai_verification_date, ai_verification_time and ai_verification_output   *)
(* bound to properties made by this call, of the category ai_verification  *)
(* and inmutable, the output property with the value out; every other      *)
(* entry is what it was; the object has no more entries than after the     *)
(* first call for it; and the object was DIRTY when the event was          *)
(* notified.                                                               *)
(***************************************************************************)
VerificationKeys ==
    {<<"a", "i", "_", "v", "_", "d">>, <<"a", "i", "_", "v", "_", "t">>,
     <<"a", "i", "_", "v", "_", "o">>}

KeysOf(d) == {d[i].key : i \in 1..Len(d)}

\* the properties the dict d binds the key to
BoundTo(d, key) == {d[i].prop : i \in {j \in 1..Len(d) : d[j].key = key}}

\* a dict binds each of its keys once
IsMapping(d) == \A i, j \in 1..Len(d) : d[i].key = d[j].key => i = j

C22_Rebound(d, out, n) ==
    \A key \in VerificationKeys :
        \E q \in BoundTo(d, key) :
            /\ q.name = key
            /\ q.category = <<"a", "i", "_", "v">>
            /\ q.inmutable
            /\ q.made = n
            /\ key = <<"a", "i", "_", "v", "_", "o">> => q.value = out

C22_StoreVerification ==
    call.op = "store_verification" =>
        /\ IsMapping(project.objects[call.a.i].properties)
        /\ KeysOf(project.objects[call.a.i].properties)
              = KeysOf(project.prev) \cup VerificationKeys
        /\ C22_Rebound(project.objects[call.a.i].properties, call.b.s, project.stores)
        /\ \A key \in KeysOf(project.prev) \ VerificationKeys :
              BoundTo(project.objects[call.a.i].properties, key)
                  = BoundTo(project.prev, key)
        /\ Len(project.objects[call.a.i].properties) <= project.first[call.a.i]
        /\ project.objects[call.a.i].state = "DIRTY"
        /\ project.seen = "DIRTY"

\* a second verification, of the output a, was stored for the object that
\* had a property of the name of the output before the first, after a
\* first of the empty output
C22_Witness ==
    /\ call.op = "store_verification"
    /\ call.a.i = 2
    /\ call.b.s = A
    /\ project.stores = 2
    /\ project.first[2] = 4
    /\ Len(project.prev) = 4
    /\ \E q \in BoundTo(project.prev, <<"a", "i", "_", "v", "_", "o">>) :
          q.made = 1 /\ q.value = <<>>
    /\ project.seen = "DIRTY"

(***************************************************************************)
(* C27: a call of remove_empty_directories(path) on a tree of files and    *)
(* directories comes to its end, and then no directory at or beneath path  *)
(* is empty (those that were emptied by the removal of their empty         *)
(* directories are gone too, path itself as well); every file is still     *)
(* there and so is every directory with a file somewhere beneath it;       *)
(* nothing was added or changed; and a path that is no directory leaves    *)
(* the disk as it was.                                                     *)
(***************************************************************************)
\* q is at or beneath p
Beneath(p, q) == Len(q) >= Len(p) /\ \A i \in 1..Len(p) : q[i] = p[i]

\* the directory p of the disk f has an entry
HasEntry(f, p) == \E q \in DOMAIN f : Len(q) = Len(p) + 1 /\ Beneath(p, q)

\* a file is at or beneath p on the disk f
HoldsFile(f, p) == \E q \in DOMAIN f : f[q] = "file" /\ Beneath(p, q)

C27_Left(before0, root, after) ==
    /\ \A p \in DOMAIN after : p \in DOMAIN before0 /\ after[p] = before0[p]
    /\ \A p \in DOMAIN after :
          (Beneath(root, p) /\ after[p] = "dir") => HasEntry(after, p)
    /\ \A p \in DOMAIN before0 : HoldsFile(before0, p) => p \in DOMAIN after
    /\ \A p \in DOMAIN before0 : ~Beneath(root, p) => p \in DOMAIN after
    /\ (root \notin DOMAIN before0 \/ before0[root] # "dir") => after = before0

C27_RemoveEmptyDirectories ==
    /\ [](prune.phase = "done" => C27_Left(prune.fs0, prune.root, fs))
    /\ (prune.phase = "running") ~> (prune.phase = "done")

\* the call for the directory a, which held nothing but a directory with
\* an empty directory, beside the file b, is over: a is gone, b is there
C27_Witness ==
    /\ prune.phase = "done"
    /\ prune.root = <<"a">>
    /\ DOMAIN prune.fs0 = {<<>>, <<"a">>, <<"b">>, <<"a", "a">>, <<"a", "a", "a">>}
    /\ prune.fs0[<<"b">>] = "file"
    /\ prune.fs0[<<"a", "a", "a">>] = "dir"
    /\ DOMAIN fs = {<<>>, <<"b">>}

\* the steps of the call leave the disk that RemoveEmptyDirectories gives
PruneAgrees ==
    prune.phase = "done" => fs = RemoveEmptyDirectories(prune.fs0, prune.root, prune.order)


(***************************************************************************)
(* The form of the export and the call of export                            *)
(***************************************************************************)
\* the five conditions under which the form is ready
C23_PathGiven == ~exporter.path.empty

C23_PathIsDirectory == Exists(fs, exporter.path.p) /\ IsDir(fs, exporter.path.p)

C23_FolderNamed == exporter.folder.text # "" /\ exporter.folder.valid

C23_FolderFree == ~Exists(fs, Append(exporter.path.p, exporter.folder.text))

C23_AllHold == C23_PathGiven /\ C23_PathIsDirectory /\ C23_FolderNamed /\ C23_FolderFree

\* the message of the first of the checks that fails, in their order
C23_FirstFailing ==
    CASE ~C23_PathGiven                     -> "_(error.empty)"
      [] C23_PathGiven /\ ~Exists(fs, exporter.path.p) -> "_(error.not_found)"
      [] C23_PathGiven /\ Exists(fs, exporter.path.p) /\ ~IsDir(fs, exporter.path.p)
                                            -> "_(error.not_directory)"
      [] C23_PathGiven /\ C23_PathIsDirectory /\ ~C23_FolderNamed
                                            -> "_(error.invalid_folder_name)"
      [] OTHER                              -> "_(error.folder_exists)"

\* C23: each call of _validate_directory emits readyToExportSignal exactly
\* once: with True and the error label hidden exactly when the path text is
\* not empty, the path exists and is a directory, the folder name is not
\* empty and valid and path/folder_name does not exist; otherwise with
\* False and the label shown with the message of the first check that fails
C23_ValidateDirectory ==
    call.op = "_validate_directory" =>
        /\ Len(exporter.signals) = 1
        /\ exporter.signals[1].sig = "ready"
        /\ exporter.raised = ""
        /\ exporter.signals[1].ok = C23_AllHold
        /\ exporter.label.hidden = C23_AllHold
        /\ ~C23_AllHold => exporter.label.text = C23_FirstFailing

\* a call that found the folder of the name there already, after a call
\* had shown another message
C23_Witness ==
    /\ call.op = "_validate_directory"
    /\ C23_PathGiven /\ C23_PathIsDirectory /\ C23_FolderNamed /\ ~C23_FolderFree
    /\ exporter.signals = <<Signal("ready", 0, FALSE, <<>>)>>
    /\ exporter.label = [hidden |-> FALSE, text |-> "_(error.folder_exists)"]


\* the signals of the last call that are of the kind
C24_Emitted(signal) == \E i \in 1..Len(exporter.signals) : exporter.signals[i] = signal

\* C24: if a step of the LaTeX part of export fails, export emits
\* exportFinishedSignal(folder, False), leaves no export folder on disk,
\* does not run pdflatex and emits neither progress 100 nor
\* exportFinishedSignal(folder, True)
C24_FailedLatexPart ==
    (call.op = "export" /\ exporter.failed # "") =>
        /\ C24_Emitted(Finished(ExportFolder(exporter), FALSE))
        /\ ~IsDir(fs, ExportFolder(exporter))
        /\ exporter.ran = 0
        /\ ~C24_Emitted(Progress(100))
        /\ ~C24_Emitted(Finished(ExportFolder(exporter), TRUE))

\* C25: a failed export never removes anything that existed before the
\* call: what was on the disk when export was called, the folder
\* path/folder_name and its contents included, is there when it returns
C25_NothingRemoved ==
    (call.op = "export" /\ exporter.failed # "") =>
        \A p \in DOMAIN exporter.fs0 : Exists(fs, p) /\ fs[p] = exporter.fs0[p]

\* the progress values of the last call, in their order
C26_ProgressValues ==
    LET at == {i \in 1..Len(exporter.signals) : exporter.signals[i].sig = "progress"}
    IN  [i \in at |-> exporter.signals[i].n]

\* C26: every call of export ends by emitting exportFinishedSignal exactly
\* once, with False when the LaTeX part failed and otherwise, whatever
\* pdflatex did, with True after progress 100; the progress values of a
\* call are strictly increasing
C26_FinishedOnce ==
    call.op = "export" =>
        /\ Cardinality({i \in 1..Len(exporter.signals) :
                           exporter.signals[i].sig = "finished"}) = 1
        /\ exporter.signals[Len(exporter.signals)]
               = Finished(ExportFolder(exporter), exporter.failed = "")
        /\ exporter.failed = "" =>
               /\ Len(exporter.signals) >= 2
               /\ exporter.signals[Len(exporter.signals) - 1] = Progress(100)
        /\ \A i, j \in DOMAIN C26_ProgressValues :
               i < j => C26_ProgressValues[i] < C26_ProgressValues[j]


(***************************************************************************)
(* The input of a unit property                                            *)
(***************************************************************************)
\* C28: after any setMeasurement calls and selections of the user the unit
\* measurement() returns is one of the units the MeasurementEdit was built
\* from, whatever the text of its item, so that get_value yields a
\* Measurement whose unit is one of the units of the property and is the
\* unit the user selected
C28_UnitOfTheList ==
    /\ form.units # <<>> => \E i \in 1..Len(form.units) : Measured(form).unit = form.units[i]
    /\ (form.out.op = "get_value" /\ form.out.err = "") =>
           /\ \E i \in 1..Len(form.units) : form.out.unit = form.units[i]
           /\ form.out.unit = form.units[form.index]

\* C29: validate returns the required-error key when the property is
\* required and the value text is empty, the value-error key when the
\* text is not empty and is no number, and None otherwise; and when
\* validate returns None, get_value returns a Measurement without raising
C29_Validate ==
    /\ form.out.op = "validate" =>
           form.out.key = (IF form.required /\ form.value = <<>> THEN REQUIRED_ERROR
                           ELSE IF form.value # <<>> /\ ~ParseFloat(form.value).ok
                           THEN VALUE_ERROR
                           ELSE "None")
    /\ (form.out.op = "get_value" /\ Validate(form) = "None") => form.out.err = ""

\* C30: create_input(p) followed by get_value, without any edit, returns a
\* Measurement equal to p.value, for every value and every unit of p
C30_ReadBack ==
    (form.out.op = "get_value" /\ form.fresh) =>
        /\ form.out.err = ""
        /\ MeasurementEq([value |-> form.out.value, unit |-> form.out.unit],
                         [t |-> "Measurement", value |-> form.shown.value,
                          unit |-> form.shown.unit])

=============================================================================
